---- MODULE Spec2Model ----
(***************************************************************************)
(* A model of the diagnoser crate: the constraint graph (src/graph.rs),    *)
(* the graph builder that walks a function declaration (src/meta.rs) and   *)
(* the module builder (src/module.rs), the two environments (src/env.rs,   *)
(* src/typing.rs), the types (src/ty.rs) and their lowering (src/ast.rs).  *)
(*                                                                         *)
(* A Rust panic is modelled as status = "panicked": the state is the one   *)
(* the panicking statement found, and no operation follows.                *)
(***************************************************************************)
EXTENDS Integers, Sequences, FiniteSets, TLC

VARIABLES
    graph,      \* graph::Graph {next_node_id, next_edge_id, nodes, edges}
    status,     \* "running" | "done" | "panicked" | "error"
    bindings,   \* GraphBuilder.bindings: Vec<HashMap<String, NodeId>>
    ctl,        \* the builder's pending work (its call stack), innermost first
    vals,       \* node ids returned by the finished parse_* calls, latest first
    decl,       \* the ast::form::FunDecl given to GraphBuilder::build
    hist,       \* history: the nodes parse_clause received for patterns and bodies
    fs_ok,      \* whether /tmp/graph_<name>_<arity>.dot can be created and written
    beam,       \* the BEAM reader: the input, the form decoder and the external Module
    forms,      \* the forms of the AST that ModuleBuilder::build still has to handle
    mb,         \* module::ModuleBuilder {name, graph, specs, funs, bindings}
    returned,   \* what Module::from_beam_file returned: "none" | "Ok" | "Err"
    ast,        \* what AST::from_beam_file yields: None on an error, else Some(forms)
    env,        \* env::Env.modules: HashMap<ModuleName, Module>
    tenv,       \* typing::Env {modules, types, specs}
    call        \* the calls made so far, or the last call and what it returned

vars == <<graph, status, bindings, ctl, vals, decl, hist, fs_ok, beam, forms, mb, returned, ast, env, tenv, call>>

-----------------------------------------------------------------------------
(* Bounds of the model.                                                    *)

MaxNodes == 4
MaxEdges == 1
MaxArgs == 1

-----------------------------------------------------------------------------
(* Small helpers.                                                          *)

None == <<>>
Some(x) == <<x>>

EmptyMap == [k \in {} |-> 0]

Range(s) == {s[i] : i \in 1..Len(s)}

SeqsUpTo(S, n) == UNION {[1..m -> S] : m \in 0..n}

-----------------------------------------------------------------------------
(* ty: the types a Val node carries.                                       *)

AnyType == [t |-> "Any"]
NoneType == [t |-> "None"]
NilType == [t |-> "Nil"]
atom(name) == [t |-> "Atom", value |-> Some(name)]
integer == [t |-> "Integer", min |-> None, max |-> None]
IntegerMin(ty, v) == [ty EXCEPT !.min = Some(v)]
IntegerMax(ty, v) == [ty EXCEPT !.max = Some(v)]
IntegerValue(ty, v) == IntegerMax(IntegerMin(ty, v), v)

\* An arbitrary-precision integer of the AST is written [q, r] and stands for
\* q * 2^62 + r with r small, so that the signed 64-bit range is q \in -1..1,
\* q = -2 with r >= 0 and q = 2 with r < 0.  An i64 is written the same way.
BigInt(q, r) == [q |-> q, r |-> r]
Small(n) == BigInt(0, n)
ToI64(x) ==
    IF x.q \in {-1, 0, 1} \/ (x.q = -2 /\ x.r >= 0) \/ (x.q = 2 /\ x.r < 0)
    THEN Some(x) ELSE None

-----------------------------------------------------------------------------
(* graph::Val                                                              *)

ValNew == [tag |-> "Val", producible_type |-> AnyType, consumable_type |-> AnyType]
\* new_any with the producible side closed, a variant the result-node property rejects
ValNewAnyVar == [tag |-> "Val", producible_type |-> NoneType, consumable_type |-> AnyType]
ValNewAny == [tag |-> "Val", producible_type |-> AnyType, consumable_type |-> AnyType]
\* new_var with the producible side left open, a variant the case-graph property rejects
ValNewVarAny == [tag |-> "Val", producible_type |-> AnyType, consumable_type |-> AnyType]
ValNewVar == [tag |-> "Val", producible_type |-> NoneType, consumable_type |-> AnyType]
ValWithType(ty) == [tag |-> "Val", producible_type |-> ty, consumable_type |-> ty]

-----------------------------------------------------------------------------
(* graph::EdgeKind                                                         *)

KMatch == [k |-> "Match"]
KReturn == [k |-> "Return"]
KConj == [k |-> "Conj"]
KFun == [k |-> "Fun"]
KModule == [k |-> "Module"]
KUnknown == [k |-> "Unknown"]
KParam(i) == [k |-> "Param", i |-> i]
KArg(i) == [k |-> "Arg", i |-> i]

-----------------------------------------------------------------------------
(* graph::Graph.  Every operation takes a graph and returns the new graph  *)
(* with what the Rust method returns.                                      *)

GraphNew == [next_node_id |-> 0, next_edge_id |-> 0, nodes |-> EmptyMap, edges |-> EmptyMap]

NodeNew(id, content) == [id |-> id, content |-> content, edges |-> {}, depends_on |-> <<>>]

NextNodeIdBad(g) == [g |-> g, id |-> g.next_node_id]
NextNodeId(g) == [g |-> [g EXCEPT !.next_node_id = @ + 1], id |-> g.next_node_id]

NextEdgeIdBad(g) == [g |-> g, id |-> g.next_edge_id]
NextEdgeId(g) == [g |-> [g EXCEPT !.next_edge_id = @ + 1], id |-> g.next_edge_id]

NewNode(g, content) ==
    LET r == NextNodeId(g)
    IN  [g |-> [r.g EXCEPT !.nodes = (r.id :> NodeNew(r.id, content)) @@ @], id |-> r.id]

NewValueNode(g, value) == NewNode(g, value)

\* add_edge: the edge is inserted first; each endpoint is then looked up and
\* unwrapped, which panics on a missing node with the earlier writes done.
AddEdgeNoConsumer(g, kind, producer, consumer) ==
    LET r == NextEdgeId(g)
        edge == [id |-> r.id, kind |-> kind, producer |-> producer, consumer |-> consumer]
        g1 == [r.g EXCEPT !.edges = (r.id :> edge) @@ @]
    IN  IF producer \notin DOMAIN g1.nodes THEN [g |-> g1, id |-> r.id, panic |-> TRUE]
        ELSE [g |-> [g1 EXCEPT !.nodes[producer].edges = @ \cup {r.id}],
              id |-> r.id, panic |-> consumer \notin DOMAIN g1.nodes]
AddEdgeSwapped(g, kind, producer, consumer) ==
    LET r == NextEdgeId(g)
        edge == [id |-> r.id, kind |-> kind, producer |-> consumer, consumer |-> producer]
        g1 == [r.g EXCEPT !.edges = (r.id :> edge) @@ @]
    IN  IF producer \notin DOMAIN g1.nodes THEN [g |-> g1, id |-> r.id, panic |-> TRUE]
        ELSE LET g2 == [g1 EXCEPT !.nodes[producer].edges = @ \cup {r.id}]
             IN  IF consumer \notin DOMAIN g2.nodes THEN [g |-> g2, id |-> r.id, panic |-> TRUE]
                 ELSE [g |-> [g2 EXCEPT !.nodes[consumer].edges = @ \cup {r.id}],
                       id |-> r.id, panic |-> FALSE]
AddEdge(g, kind, producer, consumer) ==
    LET r == NextEdgeId(g)
        edge == [id |-> r.id, kind |-> kind, producer |-> producer, consumer |-> consumer]
        g1 == [r.g EXCEPT !.edges = (r.id :> edge) @@ @]
    IN  IF producer \notin DOMAIN g1.nodes THEN [g |-> g1, id |-> r.id, panic |-> TRUE]
        ELSE LET g2 == [g1 EXCEPT !.nodes[producer].edges = @ \cup {r.id}]
             IN  IF consumer \notin DOMAIN g2.nodes THEN [g |-> g2, id |-> r.id, panic |-> TRUE]
                 ELSE [g |-> [g2 EXCEPT !.nodes[consumer].edges = @ \cup {r.id}],
                       id |-> r.id, panic |-> FALSE]

\* Fun::new: `arity` argument nodes, then the return node, all Val::new().
RECURSIVE FunArgs(_, _, _)
FunArgs(g, n, acc) ==
    IF n = 0 THEN [g |-> g, args |-> acc]
    ELSE LET r == NewValueNode(g, ValNew) IN FunArgs(r.g, n - 1, Append(acc, r.id))

FunNew(g, arity) ==
    LET a == FunArgs(g, arity, <<>>)
        r == NewValueNode(a.g, ValNew)
    IN  [g |-> r.g, content |-> [tag |-> "Fun", args |-> a.args, return_value |-> r.id]]

NewExternalFunNode(g, arity) ==
    LET f == FunNew(g, arity) IN NewNode(f.g, f.content)

LocalCallNewShared(g, fun, args) ==
    [g |-> g, content |-> [tag |-> "LocalCall", fun |-> fun, args |-> args, return_value |-> fun]]
LocalCallNew(g, fun, args) ==
    LET r == NewValueNode(g, ValNew)
    IN  [g |-> r.g,
         content |-> [tag |-> "LocalCall", fun |-> fun, args |-> args, return_value |-> r.id]]

NewLocalCallNode(g, fun, args) ==
    LET c == LocalCallNew(g, fun, args) IN NewNode(c.g, c.content)

RemoteCallNew(g, module, fun, args) ==
    LET r == NewValueNode(g, ValNew)
    IN  [g |-> r.g,
         content |-> [tag |-> "RemoteCall", module |-> module, fun |-> fun, args |-> args,
                      return_value |-> r.id]]

NewRemoteCallNode(g, module, fun, args) ==
    LET c == RemoteCallNew(g, module, fun, args) IN NewNode(c.g, c.content)

ConjNew(g, nodes) == [tag |-> "Conj", nodes |-> nodes]

\* new_conj: the Conj node, then one Conj edge per child, in order; a panic
\* in add_edge ends the loop.
RECURSIVE ConjEdges(_, _, _, _)
ConjEdges(g, nodes, i, conj_id) ==
    IF i > Len(nodes) THEN [g |-> g, panic |-> FALSE]
    ELSE LET r == AddEdge(g, KConj, nodes[i], conj_id)
         IN  IF r.panic THEN [g |-> r.g, panic |-> TRUE]
             ELSE ConjEdges(r.g, nodes, i + 1, conj_id)

NewConj(g, nodes) ==
    LET c == NewNode(g, ConjNew(g, nodes))
    IN  ConjEdges(c.g, nodes, 1, c.id)

GetReturnNode(g, node_id) ==
    IF node_id \notin DOMAIN g.nodes THEN None
    ELSE LET c == g.nodes[node_id].content
         IN  IF c.tag \in {"Fun", "LocalCall", "RemoteCall"} THEN Some(c.return_value)
             ELSE None

GetArgs(g, node_id) ==
    IF node_id \notin DOMAIN g.nodes THEN None
    ELSE LET c == g.nodes[node_id].content
         IN  IF c.tag = "Fun" THEN Some(c.args) ELSE None

\* Content::link_nodes
LinkNodes(c) ==
    CASE c.tag = "Fun" ->
           [i \in 1..Len(c.args) |-> <<KParam(i - 1), c.args[i]>>]
             \o <<<<KReturn, c.return_value>>>>
      [] c.tag = "Val" -> <<>>
      [] c.tag = "LocalCall" ->
           <<<<KFun, c.fun>>>>
             \o [i \in 1..Len(c.args) |-> <<KArg(i - 1), c.args[i]>>]
             \o <<<<KReturn, c.return_value>>>>
      [] c.tag = "RemoteCall" ->
           <<<<KModule, c.module>>, <<KFun, c.fun>>>>
             \o [i \in 1..Len(c.args) |-> <<KArg(i - 1), c.args[i]>>]
             \o <<<<KReturn, c.return_value>>>>
      [] c.tag = "Conj" -> [i \in 1..Len(c.nodes) |-> <<KConj, c.nodes[i]>>]

-----------------------------------------------------------------------------
(* Spec: a client calls the public operations of one Graph, in any order.  *)
(* Node operands are ids of nodes of the graph; add_edge is also called    *)
(* with an id the graph has not assigned, which is the case its unwrap()   *)
(* calls decide.                                                           *)

ApiVals == {ValNewVar}
ApiKinds == {KMatch}

Idle == /\ bindings = <<>> /\ ctl = <<>> /\ vals = <<>> /\ decl = <<>> /\ hist = <<>>
        /\ fs_ok = TRUE /\ beam = <<>> /\ forms = <<>> /\ mb = <<>> /\ returned = "none" /\ ast = <<>>
        /\ env = <<>> /\ tenv = <<>> /\ call = <<>>

Init == /\ graph = GraphNew
        /\ status = "running"
        /\ Idle

Others == UNCHANGED <<bindings, ctl, vals, decl, hist, fs_ok, beam, forms, mb, returned, ast, env, tenv, call>>

Room(n) == Cardinality(DOMAIN graph.nodes) + n <= MaxNodes

ApiNewValueNode ==
    /\ status = "running" /\ Room(1)
    /\ \E v \in ApiVals : graph' = NewValueNode(graph, v).g
    /\ UNCHANGED status /\ Others

ApiNewExternalFunNode ==
    /\ status = "running"
    /\ \E arity \in 0..MaxArgs :
          /\ Room(arity + 2)
          /\ graph' = NewExternalFunNode(graph, arity).g
    /\ UNCHANGED status /\ Others

ApiNewLocalCallNode ==
    /\ status = "running" /\ Room(2)
    /\ \E fun \in DOMAIN graph.nodes, args \in SeqsUpTo(DOMAIN graph.nodes, MaxArgs) :
          graph' = NewLocalCallNode(graph, fun, args).g
    /\ UNCHANGED status /\ Others

ApiNewRemoteCallNode ==
    /\ status = "running" /\ Room(2)
    /\ \E module \in DOMAIN graph.nodes, fun \in DOMAIN graph.nodes,
          args \in SeqsUpTo(DOMAIN graph.nodes, MaxArgs) :
          graph' = NewRemoteCallNode(graph, module, fun, args).g
    /\ UNCHANGED status /\ Others

ApiNewConj ==
    /\ status = "running" /\ Room(1)
    /\ \E nodes \in SeqsUpTo(DOMAIN graph.nodes, MaxArgs) :
          /\ Cardinality(DOMAIN graph.edges) + Len(nodes) <= MaxEdges
          /\ LET r == NewConj(graph, nodes)
             IN  /\ graph' = r.g
                 /\ status' = IF r.panic THEN "panicked" ELSE status
    /\ Others

ApiAddEdge ==
    /\ status = "running"
    /\ Cardinality(DOMAIN graph.edges) < MaxEdges
    /\ \E kind \in ApiKinds, producer \in 0..graph.next_node_id,
          consumer \in 0..graph.next_node_id :
          LET r == AddEdge(graph, kind, producer, consumer)
          IN  /\ graph' = r.g
              /\ status' = IF r.panic THEN "panicked" ELSE status
    /\ Others

Next ==
    \/ ApiNewValueNode
    \/ ApiNewExternalFunNode
    \/ ApiNewLocalCallNode
    \/ ApiNewRemoteCallNode
    \/ ApiNewConj
    \/ ApiAddEdge

Spec == Init /\ [][Next]_vars

-----------------------------------------------------------------------------
(* The abstract syntax GraphBuilder walks (erl_ast::ast).  "Other" stands  *)
(* for every variant the match arms of meta.rs do not name.  The value of  *)
(* an integer literal is the field ivalue.                                 *)

PAtom(value) == [p |-> "Atom", value |-> value]
PInteger(value) == [p |-> "Integer", ivalue |-> value]
PNil == [p |-> "Nil"]
PVar(name) == [p |-> "Var", name |-> name]
PMatch(left, right) == [p |-> "Match", left |-> left, right |-> right]
PCons(head, tail) == [p |-> "Cons", head |-> head, tail |-> tail]
PTuple(elements) == [p |-> "Tuple", elements |-> elements]
PRecord(name, fields) == [p |-> "Record", name |-> name, fields |-> fields]
POther == [p |-> "Other"]

EAtom(value) == [e |-> "Atom", value |-> value]
EInteger(value) == [e |-> "Integer", ivalue |-> value]
ENil == [e |-> "Nil"]
EVar(name) == [e |-> "Var", name |-> name]
EMatch(left, right) == [e |-> "Match", left |-> left, right |-> right]
ECase(expr, clauses) == [e |-> "Case", expr |-> expr, clauses |-> clauses]
ETry(body, case_clauses, catch_clauses, after) ==
    [e |-> "Try", body |-> body, case_clauses |-> case_clauses,
     catch_clauses |-> catch_clauses, after |-> after]
EIf(clauses) == [e |-> "If", clauses |-> clauses]
ERecord(name, fields) == [e |-> "Record", name |-> name, fields |-> fields]
ECons(head, tail) == [e |-> "Cons", head |-> head, tail |-> tail]
ETuple(elements) == [e |-> "Tuple", elements |-> elements]
EBinaryOp(operator, left, right) ==
    [e |-> "BinaryOp", operator |-> operator, left_operand |-> left, right_operand |-> right]
ELocalCall(function, args) == [e |-> "LocalCall", function |-> function, args |-> args]
ERemoteCall(module, function, args) ==
    [e |-> "RemoteCall", module |-> module, function |-> function, args |-> args]
EAnonymousFun == [e |-> "AnonymousFun"]
EOther == [e |-> "Other"]

GAtom(value) == [g |-> "Atom", value |-> value]
GInteger(value) == [g |-> "Integer", ivalue |-> value]
GNil == [g |-> "Nil"]
GVar(name) == [g |-> "Var", name |-> name]
GBinaryOp(operator, left, right) ==
    [g |-> "BinaryOp", operator |-> operator, left_operand |-> left, right_operand |-> right]
GLocalCall(function, args) == [g |-> "LocalCall", function |-> function, args |-> args]
GOther == [g |-> "Other"]

\* a record field: its name is an Option<String>
Field(name, value) == [name |-> name, value |-> value]
OrGuard(and_guards) == [and_guards |-> and_guards]
Clause(patterns, guards, body) == [patterns |-> patterns, guards |-> guards, body |-> body]
FunDecl(name, clauses) == [name |-> name, clauses |-> clauses]

-----------------------------------------------------------------------------
(* GraphBuilder: the binding stack.  The top frame is the last element.    *)

ScopeIn(b) == Append(b, EmptyMap)

\* a scope_out that leaves the frame in place, a variant the scoping property rejects
ScopeOutKeep(b) == b
\* scope_out pops and unwraps; the caller checks Len(b) > 0 for the panic.
ScopeOut(b) == SubSeq(b, 1, Len(b) - 1)

RECURSIVE FindFrom(_, _, _)
FindFrom(b, i, name) ==
    IF i = 0 THEN None
    ELSE IF name \in DOMAIN b[i] THEN Some(b[i][name])
         ELSE FindFrom(b, i - 1, name)

FindBindingOuterFirst(b, name) ==
    IF \E i \in 1..Len(b) : name \in DOMAIN b[i]
    THEN Some(b[CHOOSE i \in 1..Len(b) :
                  /\ name \in DOMAIN b[i]
                  /\ \A j \in 1..(i - 1) : name \notin DOMAIN b[j]][name])
    ELSE None
FindBindingTopOnly(b, name) ==
    IF Len(b) > 0 /\ name \in DOMAIN b[Len(b)] THEN Some(b[Len(b)][name]) ELSE None
FindBinding(b, name) == FindFrom(b, Len(b), name)

\* intern: the node is created before last_mut().unwrap() looks at the stack.
InternAlwaysFresh(g, b, name) ==
    LET r == NewValueNode(g, ValNew)
    IN  IF Len(b) = 0 THEN [g |-> r.g, b |-> b, id |-> r.id, panic |-> TRUE]
        ELSE [g |-> r.g, b |-> [b EXCEPT ![Len(b)] = (name :> r.id) @@ @],
              id |-> r.id, panic |-> FALSE]
Intern(g, b, name) ==
    LET found == FindBinding(b, name)
    IN  IF found # None THEN [g |-> g, b |-> b, id |-> found[1], panic |-> FALSE]
        ELSE LET r == NewValueNode(g, ValNew)
             IN  IF Len(b) = 0 THEN [g |-> r.g, b |-> b, id |-> r.id, panic |-> TRUE]
                 ELSE [g |-> r.g, b |-> [b EXCEPT ![Len(b)] = (name :> r.id) @@ @],
                       id |-> r.id, panic |-> FALSE]

-----------------------------------------------------------------------------
(* GraphBuilder: the walk.  The recursion of parse_clause, parse_pattern,  *)
(* parse_guard and parse_expr is unfolded into a stack of pending work:    *)
(* ctl holds what the active calls still have to do, in order, and vals    *)
(* the node ids the finished calls returned.                               *)

IPat(p) == [op |-> "pat", pat |-> p]
IExpr(e) == [op |-> "expr", expr |-> e]
IGuard(g) == [op |-> "guard", guard |-> g]
IClause(args, result, clause, ci) ==
    [op |-> "clause", args |-> args, result |-> result, clause |-> clause, ci |-> ci]
IMatchArg(arg, ci, pos) == [op |-> "match_arg", arg |-> arg, ci |-> ci, pos |-> pos]
IAndGuards(guards) == [op |-> "and_guards", guards |-> guards]
INewConj(n) == [op |-> "new_conj", n |-> n]
IBody(body) == [op |-> "body", body |-> body]
IDrop == [op |-> "drop"]
IReturnEdge(result, ci) == [op |-> "return_edge", result |-> result, ci |-> ci]
IScopeOut == [op |-> "scope_out"]
IEndMatch == [op |-> "end_match"]
IEndCall(fun, n) == [op |-> "end_call", fun |-> fun, n |-> n]
IEndRemoteCall(n) == [op |-> "end_remote_call", n |-> n]
IField(record, field, mode) == [op |-> "field", record |-> record, field |-> field, mode |-> mode]
IEndField(name) == [op |-> "end_field", name |-> name]
IClauses(result, clauses, then) ==
    [op |-> "clauses", result |-> result, clauses |-> clauses, then |-> then]
ITryCatch(result, try) == [op |-> "try_catch", result |-> result, try |-> try]
IPush(node) == [op |-> "push", node |-> node]
IWriteDot == [op |-> "write_dot"]

RECURSIVE Concat(_)
Concat(ss) == IF ss = <<>> THEN <<>> ELSE Head(ss) \o Concat(Tail(ss))

Map1(Op(_), s) == [i \in 1..Len(s) |-> Op(s[i])]

\* the i-th latest of the n values on top of vals, oldest first
TakeArgs(v, n) == [i \in 1..n |-> v[n + 1 - i]]
DropN(v, n) == SubSeq(v, n + 1, Len(v))

ClauseInstrs(args, result, clauses) ==
    [i \in 1..Len(clauses) |-> IClause(args, result, clauses[i], i)]

Top == Head(ctl)
Rest == Tail(ctl)
Walking == status = "running" /\ ctl # <<>>

Env == UNCHANGED <<decl, fs_ok, beam, forms, mb, returned, ast, env, tenv, call>>

Set(g, b, c, v, h) ==
    /\ graph' = g /\ bindings' = b /\ ctl' = c /\ vals' = v /\ hist' = h
    /\ UNCHANGED status /\ Env

\* a panic: the writes made so far stay, the pending work is abandoned as it is
Panic(g) ==
    /\ graph' = g /\ status' = "panicked"
    /\ UNCHANGED <<bindings, ctl, vals, hist>> /\ Env

HistPattern(ci, pos, node) ==
    Append(hist, [kind |-> "pattern", level |-> Len(bindings), clause |-> ci,
                  pos |-> pos, node |-> node])
HistBody(ci, node, into) ==
    Append(hist, [kind |-> "body", level |-> Len(bindings), clause |-> ci,
                  node |-> node, into |-> into])

\* the Val of an integer literal: a singleton when the value fits an i64
IntegerLiteral(value) ==
    LET v == ToI64(value)
    IN  IF v # None THEN ValWithType(IntegerValue(integer, v[1]))
        ELSE ValWithType(integer)

\* build, up to the loop over the clauses
Build ==
    /\ status = "start"
    /\ LET arity == Len(decl.clauses[1].patterns) % 256
           r == NewExternalFunNode(graph, arity)
           args == GetArgs(r.g, r.id)[1]
           fun_return == GetReturnNode(r.g, r.id)[1]
       IN  /\ graph' = r.g
           /\ ctl' = ClauseInstrs(args, fun_return, decl.clauses) \o <<IWriteDot>>
    /\ status' = "running"
    /\ UNCHANGED <<bindings, vals, hist>> /\ Env

\* build, after the loop: the graph is written to /tmp/graph_<name>_<arity>.dot
WriteDot ==
    /\ Walking /\ Top.op = "write_dot"
    /\ IF fs_ok
       THEN /\ status' = "done" /\ ctl' = Rest
            /\ UNCHANGED <<graph, bindings, vals, hist>> /\ Env
       ELSE Panic(graph)

\* parse_clause, up to the loop over the patterns
ParseClause ==
    /\ Walking /\ Top.op = "clause"
    /\ LET c == Top.clause
           pats == Concat([i \in 1..Len(c.patterns) |->
                             <<IPat(c.patterns[i]), IMatchArg(Top.args[i], Top.ci, i)>>])
           guards == [i \in 1..Len(c.guards) |-> IAndGuards(c.guards[i].and_guards)]
       IN  IF Len(Top.args) # Len(c.patterns) THEN Panic(graph)
           ELSE Set(graph, ScopeIn(bindings),
                    pats \o guards \o <<IBody(c.body), IReturnEdge(Top.result, Top.ci), IScopeOut>>
                      \o Rest,
                    vals, hist)

\* parse_clause: add_edge(Match, arg, pattern)
MatchArg ==
    /\ Walking /\ Top.op = "match_arg"
    /\ LET r == AddEdge(graph, KMatch, Top.arg, Head(vals))
       IN  IF r.panic THEN Panic(r.g)
           ELSE Set(r.g, bindings, Rest, Tail(vals), HistPattern(Top.ci, Top.pos, Head(vals)))

\* parse_clause: add_edge(Return, clause_result, result)
ReturnEdge ==
    /\ Walking /\ Top.op = "return_edge"
    /\ LET r == AddEdge(graph, KReturn, Head(vals), Top.result)
       IN  IF r.panic THEN Panic(r.g)
           ELSE Set(r.g, bindings, Rest, Tail(vals), HistBody(Top.ci, Head(vals), Top.result))

\* parse_clause: scope_out
ScopeOutStep ==
    /\ Walking /\ Top.op = "scope_out"
    /\ IF Len(bindings) = 0 THEN Panic(graph)
       ELSE Set(graph, ScopeOut(bindings), Rest, vals, hist)

\* parse_body: every expression in order, the last value is the result
ParseBody ==
    /\ Walking /\ Top.op = "body"
    /\ LET body == Top.body
           steps == Concat([i \in 1..Len(body) |->
                              IF i < Len(body) THEN <<IExpr(body[i]), IDrop>>
                              ELSE <<IExpr(body[i])>>])
       IN  IF Len(body) = 0 THEN Panic(graph)
           ELSE Set(graph, bindings, steps \o Rest, vals, hist)

\* a value that its caller does not keep
Drop ==
    /\ Walking /\ Top.op = "drop"
    /\ Set(graph, bindings, Rest, Tail(vals), hist)

\* the result_value a case, try or if expression returns
Push ==
    /\ Walking /\ Top.op = "push"
    /\ Set(graph, bindings, Rest, <<Top.node>> \o vals, hist)

\* parse_and_guards, up to new_conj
ParseAndGuards ==
    /\ Walking /\ Top.op = "and_guards"
    /\ Set(graph, bindings,
           Map1(IGuard, Top.guards) \o <<INewConj(Len(Top.guards))>> \o Rest, vals, hist)

\* parse_and_guards: new_conj(conjunctions)
NewConjStep ==
    /\ Walking /\ Top.op = "new_conj"
    /\ LET r == NewConj(graph, TakeArgs(vals, Top.n))
       IN  IF r.panic THEN Panic(r.g)
           ELSE Set(r.g, bindings, Rest, DropN(vals, Top.n), hist)

\* P::Var: intern
ParsePatternVar ==
    /\ Walking /\ Top.op = "pat" /\ Top.pat.p = "Var"
    /\ LET r == Intern(graph, bindings, Top.pat.name)
       IN  IF r.panic THEN Panic(r.g)
           ELSE Set(r.g, r.b, Rest, <<r.id>> \o vals, hist)

\* parse_pattern, the other arms
ParsePattern ==
    /\ Walking /\ Top.op = "pat" /\ Top.pat.p # "Var"
    /\ LET p == Top.pat
           Lit(v) == LET r == NewValueNode(graph, v)
                     IN  Set(r.g, bindings, Rest, <<r.id>> \o vals, hist)
           Call(name, work, n) ==
               LET r == NewValueNode(graph, ValWithType(atom(name)))
               IN  Set(r.g, bindings, work \o <<IEndCall(Some(r.id), n)>> \o Rest, vals, hist)
       IN  CASE p.p = "Atom" -> Lit(ValWithType(atom(p.value)))
             [] p.p = "Integer" -> Lit(IntegerLiteral(p.ivalue))
             [] p.p = "Nil" -> Lit(ValWithType(NilType))
             [] p.p = "Match" ->
                  Set(graph, bindings, <<IPat(p.left), IPat(p.right), IEndMatch>> \o Rest,
                      vals, hist)
             [] p.p = "Cons" -> Call("__cons", <<IPat(p.head), IPat(p.tail)>>, 2)
             [] p.p = "Record" ->
                  Call("__record_" \o p.name,
                       [i \in 1..Len(p.fields) |-> IField(p.name, p.fields[i], "pat")],
                       Len(p.fields))
             [] p.p = "Tuple" -> Call("__tuple", Map1(IPat, p.elements), Len(p.elements))
             [] OTHER -> Panic(graph)

\* G::Var: find_binding(..).unwrap()
ParseGuardVar ==
    /\ Walking /\ Top.op = "guard" /\ Top.guard.g = "Var"
    /\ LET found == FindBinding(bindings, Top.guard.name)
       IN  IF found = None THEN Panic(graph)
           ELSE Set(graph, bindings, Rest, <<found[1]>> \o vals, hist)

\* parse_guard, the other arms
ParseGuard ==
    /\ Walking /\ Top.op = "guard" /\ Top.guard.g # "Var"
    /\ LET x == Top.guard
           Lit(v) == LET r == NewValueNode(graph, v)
                     IN  Set(r.g, bindings, Rest, <<r.id>> \o vals, hist)
       IN  CASE x.g = "Atom" -> Lit(ValWithType(atom(x.value)))
             [] x.g = "Integer" -> Lit(IntegerLiteral(x.ivalue))
             [] x.g = "Nil" -> Lit(ValWithType(NilType))
             [] x.g = "BinaryOp" ->
                  LET r == NewValueNode(graph, ValWithType(atom("__op_" \o x.operator)))
                  IN  Set(r.g, bindings,
                          <<IGuard(x.left_operand), IGuard(x.right_operand),
                            IEndCall(Some(r.id), 2)>> \o Rest,
                          vals, hist)
             [] x.g = "LocalCall" ->
                  Set(graph, bindings,
                      <<IGuard(x.function)>> \o Map1(IGuard, x.args)
                        \o <<IEndCall(None, Len(x.args))>> \o Rest,
                      vals, hist)
             [] OTHER -> Panic(graph)

\* E::Var: find_binding(..).unwrap()
ParseExprVar ==
    /\ Walking /\ Top.op = "expr" /\ Top.expr.e = "Var"
    /\ LET found == FindBinding(bindings, Top.expr.name)
       IN  IF found = None THEN Panic(graph)
           ELSE Set(graph, bindings, Rest, <<found[1]>> \o vals, hist)

\* parse_expr, the other arms
ParseExpr ==
    /\ Walking /\ Top.op = "expr" /\ Top.expr.e # "Var"
    /\ LET x == Top.expr
           Lit(v) == LET r == NewValueNode(graph, v)
                     IN  Set(r.g, bindings, Rest, <<r.id>> \o vals, hist)
           Call(name, work, n) ==
               LET r == NewValueNode(graph, ValWithType(atom(name)))
               IN  Set(r.g, bindings, work \o <<IEndCall(Some(r.id), n)>> \o Rest, vals, hist)
           Result(work(_)) ==
               LET r == NewValueNode(graph, ValNewVar)
               IN  Set(r.g, bindings, work(r.id) \o Rest, vals, hist)
           CaseWork(id) == <<IExpr(x.expr), IClauses(id, x.clauses, <<IPush(id)>>)>>
           TryWork(id) == <<IBody(x.body), IClauses(id, x.case_clauses, <<ITryCatch(id, x)>>)>>
           IfWork(id) == ClauseInstrs(<<>>, id, x.clauses) \o <<IPush(id)>>
       IN  CASE x.e = "Atom" -> Lit(ValWithType(atom(x.value)))
             [] x.e = "Integer" -> Lit(IntegerLiteral(x.ivalue))
             [] x.e = "Nil" -> Lit(ValWithType(NilType))
             [] x.e = "Match" ->
                  Set(graph, bindings, <<IPat(x.left), IExpr(x.right), IEndMatch>> \o Rest,
                      vals, hist)
             [] x.e = "Case" -> Result(CaseWork)
             [] x.e = "Try" -> Result(TryWork)
             [] x.e = "If" -> Result(IfWork)
             [] x.e = "Record" ->
                  Call("__record_" \o x.name,
                       [i \in 1..Len(x.fields) |-> IField(x.name, x.fields[i], "expr")],
                       Len(x.fields))
             [] x.e = "Cons" -> Call("__cons", <<IExpr(x.head), IExpr(x.tail)>>, 2)
             [] x.e = "Tuple" -> Call("__tuple", Map1(IExpr, x.elements), Len(x.elements))
             [] x.e = "BinaryOp" ->
                  Call("__op_" \o x.operator,
                       <<IExpr(x.left_operand), IExpr(x.right_operand)>>, 2)
             [] x.e = "LocalCall" ->
                  Set(graph, bindings,
                      <<IExpr(x.function)>> \o Map1(IExpr, x.args)
                        \o <<IEndCall(None, Len(x.args))>> \o Rest,
                      vals, hist)
             [] x.e = "RemoteCall" ->
                  Set(graph, bindings,
                      <<IExpr(x.module), IExpr(x.function)>> \o Map1(IExpr, x.args)
                        \o <<IEndRemoteCall(Len(x.args))>> \o Rest,
                      vals, hist)
             [] x.e = "AnonymousFun" -> Lit(ValNewAny)
             [] OTHER -> Panic(graph)

\* P::Match and E::Match: add_edge(Match, right, left); left is the value
EndMatch ==
    /\ Walking /\ Top.op = "end_match"
    /\ LET right == vals[1]
           left == vals[2]
           r == AddEdge(graph, KMatch, right, left)
       IN  IF r.panic THEN Panic(r.g)
           ELSE Set(r.g, bindings, Rest, <<left>> \o DropN(vals, 2), hist)

\* new_local_call_node(fun, args), then get_return_node(node_id).unwrap()
EndCall ==
    /\ Walking /\ Top.op = "end_call"
    /\ LET n == Top.n
           args == TakeArgs(vals, n)
           fun == IF Top.fun # None THEN Top.fun[1] ELSE vals[n + 1]
           used == IF Top.fun # None THEN n ELSE n + 1
           r == NewLocalCallNode(graph, fun, args)
           ret == GetReturnNode(r.g, r.id)
       IN  IF ret = None THEN Panic(r.g)
           ELSE Set(r.g, bindings, Rest, <<ret[1]>> \o DropN(vals, used), hist)

\* new_remote_call_node(module, fun, args), then get_return_node(node_id).unwrap()
EndRemoteCall ==
    /\ Walking /\ Top.op = "end_remote_call"
    /\ LET n == Top.n
           args == TakeArgs(vals, n)
           fun == vals[n + 1]
           module == vals[n + 2]
           r == NewRemoteCallNode(graph, module, fun, args)
           ret == GetReturnNode(r.g, r.id)
       IN  IF ret = None THEN Panic(r.g)
           ELSE Set(r.g, bindings, Rest, <<ret[1]>> \o DropN(vals, n + 2), hist)

\* a record field: f.name.expect(..), the __field_<record>_<field> atom, then the value
ParseField ==
    /\ Walking /\ Top.op = "field"
    /\ LET f == Top.field
           r == NewValueNode(graph,
                             ValWithType(atom("__field_" \o Top.record \o "_" \o f.name[1])))
           value == IF Top.mode = "pat" THEN IPat(f.value) ELSE IExpr(f.value)
       IN  IF f.name = None THEN Panic(graph)
           ELSE Set(r.g, bindings, <<value, IEndField(r.id)>> \o Rest, vals, hist)

\* a record field: new_local_call_node(name, vec![arg]); the call node is the value
EndField ==
    /\ Walking /\ Top.op = "end_field"
    /\ LET r == NewLocalCallNode(graph, Top.name, <<Head(vals)>>)
       IN  Set(r.g, bindings, Rest, <<r.id>> \o Tail(vals), hist)

\* E::Case and E::Try: the loop of parse_clause(&[value], result_value, clause)
ParseClauses ==
    /\ Walking /\ Top.op = "clauses"
    /\ Set(graph, bindings,
           ClauseInstrs(<<Head(vals)>>, Top.result, Top.clauses) \o Top.then \o Rest,
           Tail(vals), hist)

\* E::Try: the catch value, the catch clauses and the after body
TryCatch ==
    /\ Walking /\ Top.op = "try_catch"
    /\ LET x == Top.try
           r == NewValueNode(graph, ValNewAny)
           after == IF x.after # <<>> THEN <<IBody(x.after), IDrop>> ELSE <<>>
       IN  Set(r.g, bindings,
               ClauseInstrs(<<r.id>>, Top.result, x.catch_clauses) \o after
                 \o <<IPush(Top.result)>> \o Rest,
               vals, hist)

-----------------------------------------------------------------------------
(* SpecBuild: GraphBuilder::new().build(decl) for the declarations below.  *)

MaxParams == 2
MaxClauses == 2

X == PVar("X")
Y == PVar("Y")
Big == BigInt(4, 0)

\* f(X) -> X.
DeclF == FunDecl("f", <<Clause(<<X>>, <<>>, <<EVar("X")>>)>>)

\* g(X) -> case X of 0 -> zero; _ -> nonzero end.
DeclG ==
    FunDecl("g",
      <<Clause(<<X>>, <<>>,
          <<ECase(EVar("X"),
              <<Clause(<<PInteger(Small(0))>>, <<>>, <<EAtom("zero")>>),
                Clause(<<PVar("_")>>, <<>>, <<EAtom("nonzero")>>)>>)>>)>>)

Pats ==
    {X, Y, PVar("_"), PAtom("a"), PInteger(Small(0)), PInteger(Big), PNil,
     PMatch(X, PAtom("a")), PCons(X, Y), PTuple(<<X, X>>),
     PRecord("r", <<Field(Some("f"), X)>>), PRecord("r", <<Field(None, X)>>), POther}

GuardSeqs ==
    {<<>>,
     <<OrGuard(<<GVar("X")>>)>>,
     <<OrGuard(<<GVar("Y")>>)>>,
     <<OrGuard(<<GLocalCall(GAtom("is_atom"), <<GVar("X")>>)>>),
       OrGuard(<<GBinaryOp(">", GVar("X"), GInteger(Small(0))), GNil, GInteger(Big)>>)>>,
     <<OrGuard(<<GOther>>)>>}

\* case X of Z -> Z; Z -> Z end
CaseZ == ECase(EVar("X"), <<Clause(<<PVar("Z")>>, <<>>, <<EVar("Z")>>),
                            Clause(<<PVar("Z")>>, <<>>, <<EVar("Z")>>)>>)

Exprs ==
    {EAtom("ok"), EInteger(Small(1)), EInteger(Big), ENil, EVar("X"), EVar("Y"),
     EMatch(Y, EVar("X")),
     CaseZ,
     ECase(EVar("X"), <<Clause(<<X, Y>>, <<>>, <<ENil>>)>>),
     ECase(EVar("X"), <<Clause(<<X>>, <<>>, <<EVar("W")>>)>>),
     ETry(<<EVar("X")>>,
          <<Clause(<<PVar("Z")>>, <<>>, <<EVar("Z")>>)>>,
          <<Clause(<<PVar("E")>>, <<>>, <<EVar("E")>>)>>,
          <<EAtom("done")>>),
     ETry(<<EAtom("ok")>>, <<>>, <<Clause(<<PVar("_")>>, <<>>, <<ENil>>)>>, <<>>),
     EIf(<<Clause(<<>>, <<OrGuard(<<GVar("X")>>)>>, <<EAtom("t")>>),
           Clause(<<>>, <<OrGuard(<<GAtom("true")>>)>>, <<EAtom("f")>>)>>),
     ERecord("r", <<Field(Some("f"), EVar("X")), Field(Some("g"), ENil)>>),
     ERecord("r", <<Field(None, EVar("X"))>>),
     ECons(EVar("X"), ENil), ETuple(<<EVar("X"), EAtom("a")>>),
     EBinaryOp("+", EVar("X"), EInteger(Small(1))),
     ELocalCall(EAtom("h"), <<EVar("X")>>),
     ERemoteCall(EAtom("m"), EAtom("h"), <<EVar("X")>>),
     EAnonymousFun, EOther}

\* one clause, at most one pattern, any guard sequence, one body expression
OneClauseDecls ==
    {FunDecl("f", <<Clause(ps, gs, <<e>>)>>) :
        ps \in {<<>>} \cup {<<p>> : p \in Pats}, gs \in GuardSeqs, e \in Exprs}

\* k clauses of n simple patterns each
SimplePats == {X, PAtom("a")}
SimpleBodies == {<<EVar("X")>>, <<EAtom("ok"), EVar("X")>>}
SimpleClauses(n) == {Clause(ps, <<>>, b) : ps \in [1..n -> SimplePats], b \in SimpleBodies}
ManyClauseDecls ==
    UNION {{FunDecl("f", cs) : cs \in [1..k -> SimpleClauses(n)]} :
             n \in 0..MaxParams, k \in 1..MaxClauses}

\* clauses that disagree on the number of patterns
MixedDecls ==
    {FunDecl("f", <<Clause(<<X>>, <<>>, <<EVar("X")>>), Clause(<<X, Y>>, <<>>, <<EVar("X")>>)>>),
     FunDecl("f", <<Clause(<<>>, <<>>, <<EAtom("ok")>>), Clause(<<X>>, <<>>, <<EVar("X")>>)>>)}

\* h(X) -> try case X of a -> X end of Z -> Z
\*         catch E -> if true -> E end
\*         after case X of _ -> ok end end.
DeclH ==
    FunDecl("h",
      <<Clause(<<X>>, <<>>,
          <<ETry(<<ECase(EVar("X"), <<Clause(<<PAtom("a")>>, <<>>, <<EVar("X")>>)>>)>>,
                 <<Clause(<<PVar("Z")>>, <<>>, <<EVar("Z")>>)>>,
                 <<Clause(<<PVar("E")>>, <<>>,
                     <<EIf(<<Clause(<<>>, <<OrGuard(<<GAtom("true")>>)>>, <<EVar("E")>>)>>)>>)>>,
                 <<ECase(EVar("X"), <<Clause(<<PVar("_")>>, <<>>, <<EAtom("ok")>>)>>)>>)>>)>>)

\* s(X) -> case X of X -> ok; Z -> Z; Z -> Z end, Z.
DeclS ==
    FunDecl("s",
      <<Clause(<<X>>, <<>>,
          <<ECase(EVar("X"),
              <<Clause(<<X>>, <<>>, <<EAtom("ok")>>),
                Clause(<<PVar("Z")>>, <<>>, <<EVar("Z")>>),
                Clause(<<PVar("Z")>>, <<>>, <<EVar("Z")>>)>>),
            EVar("Z")>>)>>)

Decls == {DeclF, DeclG, DeclH, DeclS} \cup OneClauseDecls \cup ManyClauseDecls \cup MixedDecls

InitBuild ==
    /\ graph = GraphNew
    /\ status = "start"
    /\ bindings = <<>> /\ ctl = <<>> /\ vals = <<>> /\ hist = <<>>
    /\ decl \in Decls
    /\ fs_ok \in BOOLEAN /\ beam = <<>>
    /\ forms = <<>> /\ mb = <<>> /\ returned = "none" /\ ast = <<>>
    /\ env = <<>> /\ tenv = <<>> /\ call = <<>>

NextBuild ==
    \/ Build
    \/ WriteDot
    \/ ParseClause
    \/ MatchArg
    \/ ReturnEdge
    \/ ScopeOutStep
    \/ ParseBody
    \/ Drop
    \/ Push
    \/ ParseAndGuards
    \/ NewConjStep
    \/ ParsePatternVar
    \/ ParsePattern
    \/ ParseGuardVar
    \/ ParseGuard
    \/ ParseExprVar
    \/ ParseExpr
    \/ EndMatch
    \/ EndCall
    \/ EndRemoteCall
    \/ ParseField
    \/ EndField
    \/ ParseClauses
    \/ TryCatch

SpecBuild == InitBuild /\ [][NextBuild]_vars

-----------------------------------------------------------------------------
(* Properties of the graph (Spec).                                         *)

Nodes == DOMAIN graph.nodes
Edges == DOMAIN graph.edges
Content(n) == graph.nodes[n].content
IsCall(n) == Content(n).tag \in {"Fun", "LocalCall", "RemoteCall"}
IsVal(n) == Content(n).tag = "Val"

\* the node ids a node's content names, its return node aside
Operands(c) ==
    CASE c.tag = "Fun" -> Range(c.args)
      [] c.tag = "LocalCall" -> {c.fun} \cup Range(c.args)
      [] c.tag = "RemoteCall" -> {c.module, c.fun} \cup Range(c.args)
      [] c.tag = "Conj" -> Range(c.nodes)
      [] OTHER -> {}

Incident(n) ==
    {e \in Edges : graph.edges[e].producer = graph.nodes[n].id
                     \/ graph.edges[e].consumer = graph.nodes[n].id}

C2_EndpointsLive ==
    \A e \in Edges : graph.edges[e].producer \in Nodes /\ graph.edges[e].consumer \in Nodes

C4_IdsState ==
    /\ Nodes = 0..(graph.next_node_id - 1)
    /\ Edges = 0..(graph.next_edge_id - 1)
    /\ \A n \in Nodes : n < graph.next_node_id /\ graph.nodes[n].id = n
    /\ \A e \in Edges : e < graph.next_edge_id /\ graph.edges[e].id = e

C4_IdsStep ==
    /\ Nodes \subseteq DOMAIN graph'.nodes
    /\ Edges \subseteq DOMAIN graph'.edges
    /\ graph'.next_node_id = graph.next_node_id + Cardinality(DOMAIN graph'.nodes \ Nodes)
    /\ graph'.next_edge_id = graph.next_edge_id + Cardinality(DOMAIN graph'.edges \ Edges)
    /\ \A n \in DOMAIN graph'.nodes \ Nodes : \A m \in Nodes : m < n
    /\ \A e \in DOMAIN graph'.edges \ Edges : \A d \in Edges : d < e
    /\ \A n \in Nodes : graph'.nodes[n].content = graph.nodes[n].content

-----------------------------------------------------------------------------
(* Properties of the graph builder (SpecBuild).                            *)

FunNodes == {n \in Nodes : Content(n).tag = "Fun"}
EdgesOf(kind, producer, consumer) ==
    {e \in Edges : /\ graph.edges[e].kind = kind
                   /\ graph.edges[e].producer = producer
                   /\ graph.edges[e].consumer = consumer}
EdgesInto(kind, consumer) ==
    {e \in Edges : graph.edges[e].kind = kind /\ graph.edges[e].consumer = consumer}
EdgesFrom(kind, producer) ==
    {e \in Edges : graph.edges[e].kind = kind /\ graph.edges[e].producer = producer}

\* the nodes parse_pattern returned for pattern `pos` of clause `c` at nesting `level`
PatternNodes(level, c, pos) ==
    {hist[i].node : i \in {j \in 1..Len(hist) :
        /\ hist[j].kind = "pattern" /\ hist[j].level = level
        /\ hist[j].clause = c /\ hist[j].pos = pos}}
\* the nodes parse_body returned for clause `c` at nesting `level`
BodyNodes(level, c) ==
    {hist[i].node : i \in {j \in 1..Len(hist) :
        hist[j].kind = "body" /\ hist[j].level = level /\ hist[j].clause = c}}

\* the graph of f(X) -> X.: a = 0, r = 1, the Fun node 2, x = 3
GraphF ==
    [next_node_id |-> 4, next_edge_id |-> 2,
     nodes |-> (0 :> [id |-> 0, edges |-> {0}, depends_on |-> <<>>,
                      content |-> [tag |-> "Val", producible_type |-> [t |-> "Any"],
                                   consumable_type |-> [t |-> "Any"]]])
            @@ (1 :> [id |-> 1, edges |-> {1}, depends_on |-> <<>>,
                      content |-> [tag |-> "Val", producible_type |-> [t |-> "Any"],
                                   consumable_type |-> [t |-> "Any"]]])
            @@ (2 :> [id |-> 2, edges |-> {}, depends_on |-> <<>>,
                      content |-> [tag |-> "Fun", args |-> <<0>>, return_value |-> 1]])
            @@ (3 :> [id |-> 3, edges |-> {0, 1}, depends_on |-> <<>>,
                      content |-> [tag |-> "Val", producible_type |-> [t |-> "Any"],
                                   consumable_type |-> [t |-> "Any"]]]),
     edges |-> (0 :> [id |-> 0, kind |-> [k |-> "Match"], producer |-> 0, consumer |-> 3])
            @@ (1 :> [id |-> 1, kind |-> [k |-> "Return"], producer |-> 3, consumer |-> 1])]

\* C5: when build returns the graph of a declaration of k clauses with n
\* patterns each, the graph has one Fun node, with n distinct Val argument
\* nodes linked as Param(0)..Param(n-1) and a Val return node; argument i
\* produces one Match edge per clause, into the node of that clause's i-th
\* pattern; and the return node consumes exactly k Return edges, one per
\* clause, from the node of the clause's last body expression.  For
\* f(X) -> X. the graph is exactly GraphF.
C5_FunctionGraph ==
    status = "done" =>
        LET n == Len(decl.clauses[1].patterns)
            k == Len(decl.clauses)
        IN  /\ Cardinality(FunNodes) = 1
            /\ \A f \in FunNodes :
                 LET c == Content(f)
                     ret == c.return_value
                 IN  /\ Len(c.args) = n
                     /\ \A i \in 1..n :
                          /\ c.args[i] \in Nodes /\ IsVal(c.args[i])
                          /\ \A j \in 1..n : j # i => c.args[j] # c.args[i]
                     /\ ret \in Nodes /\ IsVal(ret) /\ ret \notin Range(c.args)
                     /\ LinkNodes(c) =
                          [i \in 1..(n + 1) |->
                             IF i <= n THEN <<[k |-> "Param", i |-> i - 1], c.args[i]>>
                             ELSE <<[k |-> "Return"], ret>>]
                     /\ \A cl \in 1..k : \A i \in 1..n :
                          \E q \in PatternNodes(1, cl, i) :
                             EdgesOf([k |-> "Match"], c.args[i], q) # {}
                     /\ \A i \in 1..n : Cardinality(EdgesFrom([k |-> "Match"], c.args[i])) = k
                     /\ Cardinality(EdgesInto([k |-> "Return"], ret)) = k
                     /\ \A cl \in 1..k :
                          \E b \in BodyNodes(1, cl) : EdgesOf([k |-> "Return"], b, ret) # {}
            /\ decl = DeclF => graph = GraphF

\* build has returned the graph of f(X) -> X.
C5_Witness == status = "done" /\ decl = DeclF

IsAtomNode(n, name) ==
    Content(n) = [tag |-> "Val",
                  producible_type |-> [t |-> "Atom", value |-> <<name>>],
                  consumable_type |-> [t |-> "Atom", value |-> <<name>>]]
IsZeroNode(n) ==
    LET zero == [t |-> "Integer", min |-> <<[q |-> 0, r |-> 0]>>, max |-> <<[q |-> 0, r |-> 0]>>]
    IN  Content(n) = [tag |-> "Val", producible_type |-> zero, consumable_type |-> zero]
IsResultNode(n) ==
    Content(n) = [tag |-> "Val", producible_type |-> [t |-> "None"],
                  consumable_type |-> [t |-> "Any"]]
Producers(es) == {graph.edges[e].producer : e \in es}

\* C6 as claimed: in the graph of g the case result node c (producible None,
\* consumable Any) has exactly two Return edges into it, one produced by the
\* Integer-singleton 0 node and the other by the node bound to `_`.
C6_AsClaimed ==
    (status = "done" /\ decl = DeclG) =>
        \E c \in Nodes :
            /\ IsResultNode(c)
            /\ Cardinality(EdgesInto([k |-> "Return"], c)) = 2
            /\ \E z \in Nodes, u \in PatternNodes(2, 2, 1) :
                 /\ IsZeroNode(z)
                 /\ Producers(EdgesInto([k |-> "Return"], c)) = {z, u}

\* C6 amended: the two Return edges into c are produced by the nodes of the
\* clause bodies, the atoms 'zero' and 'nonzero'; the Integer-singleton 0
\* node and the node bound to `_` are the clauses' pattern nodes: each
\* consumes a Match edge produced by the node of X and produces no edge.
C6_CaseGraph ==
    (status = "done" /\ decl = DeclG) =>
        \E c \in Nodes :
            /\ IsResultNode(c)
            /\ Cardinality(EdgesInto([k |-> "Return"], c)) = 2
            /\ \E a, b \in Nodes :
                 /\ IsAtomNode(a, "zero") /\ IsAtomNode(b, "nonzero")
                 /\ Producers(EdgesInto([k |-> "Return"], c)) = {a, b}
                 /\ BodyNodes(2, 1) = {a} /\ BodyNodes(2, 2) = {b}
            /\ \E x \in PatternNodes(1, 1, 1), z \in PatternNodes(2, 1, 1),
                  u \in PatternNodes(2, 2, 1) :
                 /\ IsZeroNode(z) /\ Content(u) = Content(x) /\ u # x /\ u # z
                 /\ EdgesOf([k |-> "Match"], x, z) # {}
                 /\ EdgesOf([k |-> "Match"], x, u) # {}
                 /\ \A e \in Edges : graph.edges[e].producer \notin {z, u}
            /\ \E r \in Nodes : EdgesOf([k |-> "Return"], c, r) # {} /\ ~IsResultNode(r)

\* build has returned the graph of g
C6_Witness == status = "done" /\ decl = DeclG

\* C7: when build has ended, by returning or by a failure inside a clause,
\* every scope_in has had its scope_out: the binding stack is as deep as
\* before the outermost parse_clause, that is, empty.
C7_ScopesBalanced == status \in {"done", "panicked"} => Len(bindings) = 0

BoundIn(b, name) == {i \in 1..Len(b) : name \in DOMAIN b[i]}
Innermost(b, name) == b[CHOOSE i \in BoundIn(b, name) : \A j \in BoundIn(b, name) : j <= i][name]

AtPatternVar == Walking /\ Top.op = "pat" /\ Top.pat.p = "Var"
AtExprVar == Walking /\ Top.op = "expr" /\ Top.expr.e = "Var"
AtGuardVar == Walking /\ Top.op = "guard" /\ Top.guard.g = "Var"
VarName == IF Top.op = "pat" THEN Top.pat.name
           ELSE IF Top.op = "expr" THEN Top.expr.name ELSE Top.guard.name

\* binding stacks in which a name is bound in several frames
SampleFrames == {EmptyMap, "X" :> 0, "X" :> 1, ("X" :> 2) @@ ("Y" :> 0)}
SampleStacks == SeqsUpTo(SampleFrames, 3)

\* C8, intern: a name bound in some frame yields the innermost binding and
\* changes neither the graph nor any frame; an unbound name adds exactly one
\* node, a Val::new(), binds the name to it in the top frame and leaves the
\* other bindings of the top frame and all lower frames as they are.
C8_InternStep ==
    AtPatternVar =>
        LET name == VarName
            top == Len(bindings)
            new == graph.next_node_id
        IN  IF BoundIn(bindings, name) # {}
            THEN /\ graph' = graph /\ bindings' = bindings
                 /\ vals' = <<Innermost(bindings, name)>> \o vals
            ELSE /\ top > 0
                 /\ DOMAIN graph'.nodes = Nodes \cup {new} /\ new \notin Nodes
                 /\ \A n \in Nodes : graph'.nodes[n] = graph.nodes[n]
                 /\ graph'.nodes[new].content =
                      [tag |-> "Val", producible_type |-> [t |-> "Any"],
                       consumable_type |-> [t |-> "Any"]]
                 /\ graph'.edges = graph.edges
                 /\ Len(bindings') = top
                 /\ \A i \in 1..(top - 1) : bindings'[i] = bindings[i]
                 /\ DOMAIN bindings'[top] = DOMAIN bindings[top] \cup {name}
                 /\ bindings'[top][name] = new
                 /\ \A m \in DOMAIN bindings[top] : bindings'[top][m] = bindings[top][m]
                 /\ vals' = <<new>> \o vals

\* C8, find: a reference yields the binding of the innermost frame that
\* binds the name, and nothing when no frame binds it.
C8_FindStep ==
    (AtExprVar \/ AtGuardVar) =>
        IF BoundIn(bindings, VarName) # {}
        THEN vals' = <<Innermost(bindings, VarName)>> \o vals
        ELSE vals' = vals

C8_FindSamples ==
    \A b \in SampleStacks : \A name \in {"X", "Y"} :
        FindBinding(b, name) =
            IF BoundIn(b, name) = {} THEN <<>> ELSE <<Innermost(b, name)>>

C8_InternFind == []C8_FindSamples /\ [][C8_InternStep /\ C8_FindStep]_vars

\* intern is about to run in a nested clause on a name an outer frame binds
C8_Witness ==
    /\ AtPatternVar /\ Len(bindings) = 2
    /\ VarName \in DOMAIN bindings[1] /\ VarName \notin DOMAIN bindings[2]

\* C9: a variable in expression or guard position yields the node bound to
\* the name and creates no node, edge or binding; an unbound name makes the
\* parse fail with a graph-builder error, not a node.
C9_VarStep ==
    (AtExprVar \/ AtGuardVar) =>
        /\ graph' = graph /\ bindings' = bindings
        /\ IF BoundIn(bindings, VarName) # {}
           THEN status' = "running" /\ vals' = <<Innermost(bindings, VarName)>> \o vals
           ELSE status' = "error" /\ vals' = vals

C9_VarReference == [][C9_VarStep]_vars

-----------------------------------------------------------------------------
(* module: Module::from_beam_file and ModuleBuilder.  The forms of the AST *)
(* are handled one per step.  A helper returns [m, id, panic]: the builder *)
(* after its writes, the node id it yields, and whether it panicked.       *)

MaxForms == 3

FModule(name) == [f |-> "Module", name |-> name]
FSpec(name, types) == [f |-> "Spec", name |-> name, types |-> types]
FFun(name, clauses) == [f |-> "Fun", name |-> name, clauses |-> clauses]
FExport == [f |-> "Export"]
FExportType == [f |-> "ExportType"]
FFile == [f |-> "File"]
FEof == [f |-> "Eof"]
\* a record declaration, one of the forms handle_form has no arm for
FRecord == [f |-> "Record"]

TAtom(value) == [ty |-> "Atom", value |-> value]
TBuiltIn(name, args) == [ty |-> "BuiltIn", name |-> name, args |-> args]
\* a type handle_form's add_type has no arm for (a union, a range, ...)
TOther == [ty |-> "Other"]
TFun(args, return_type, constraints) ==
    [args |-> args, return_type |-> return_type, constraints |-> constraints]
EString(value) == [e |-> "String", value |-> value]

Arity(n) == n % 256
Local(name, arity) == [name |-> name, arity |-> arity]

\* ty::Graph: nodes are numbered in the order they are added
TyGraphNew == [nodes |-> <<>>, edges |-> {}]
TyAddNode(g, t) == [g |-> [g EXCEPT !.nodes = Append(@, t)], id |-> Len(g.nodes)]
TyAddEdge(g, from, to, label) == [g EXCEPT !.edges = @ \cup {<<from, to, label>>}]

BindingsNew == <<>>
BindingsScopeIn(b) == Append(b, EmptyMap)
BindingsScopeOut(b) == IF b = <<>> THEN b ELSE SubSeq(b, 1, Len(b) - 1)
BindingsGet(b, name) == FindFrom(b, Len(b), name)
BindingsBind(b, name, node) == [b EXCEPT ![Len(b)] = (name :> node) @@ @]

ModuleBuilderNew ==
    [name |-> None, graph |-> TyGraphNew, specs |-> EmptyMap, funs |-> EmptyMap,
     bindings |-> BindingsNew]

MbPanic(m) == [m |-> m, id |-> 0, ids |-> <<>>, panic |-> TRUE]
MbAdd(m, t) ==
    LET r == TyAddNode(m.graph, t)
    IN  [m |-> [m EXCEPT !.graph = r.g], id |-> r.id, ids |-> <<>>, panic |-> FALSE]

\* the Var arm of parse_pattern and of parse_expr
MbVar(m, name) ==
    LET found == BindingsGet(m.bindings, name)
        r == TyAddNode(m.graph, [t |-> "VarType", name |-> name])
    IN  IF found # None THEN [m |-> m, id |-> found[1], ids |-> <<>>, panic |-> FALSE]
        ELSE IF m.bindings = <<>>
             THEN MbPanic([m EXCEPT !.graph = r.g])
             ELSE [m |-> [m EXCEPT !.graph = r.g,
                                   !.bindings = BindingsBind(@, name, r.id)],
                   id |-> r.id, ids |-> <<>>, panic |-> FALSE]

MbParsePattern(m, q) == IF q.p = "Var" THEN MbVar(m, q.name) ELSE MbPanic(m)

to_atom_name(e) == IF e.e = "Atom" THEN Some(e.value) ELSE None

RECURSIVE MbEach(_, _, _)
RECURSIVE MbParseExpr(_, _)
RECURSIVE AddType(_, _)

AddType(m, ty) ==
    CASE ty.ty = "Atom" -> MbAdd(m, [t |-> "AtomType", name |-> ty.value])
      [] ty.ty = "BuiltIn" ->
           LET a == MbEach(m, ty.args, "type")
           IN  IF a.panic THEN MbPanic(a.m)
               ELSE MbAdd(a.m, [t |-> "BuiltInType", name |-> ty.name, args |-> a.ids])
      [] OTHER -> MbPanic(m)

MbParseExpr(m, e) ==
    CASE e.e = "Nil" -> MbAdd(m, [t |-> "NilType"])
      [] e.e = "String" -> MbAdd(m, [t |-> "StrType", value |-> e.value])
      [] e.e = "Atom" -> MbAdd(m, [t |-> "AtomType", name |-> e.value])
      [] e.e = "Var" -> MbVar(m, e.name)
      [] e.e = "RemoteCall" ->
           IF to_atom_name(e.module) = None \/ to_atom_name(e.function) = None
           THEN MbPanic(m)
           ELSE LET a == MbEach(m, e.args, "expr")
                    result == MbAdd(a.m, [t |-> "AnyType"])
                    remote == MbAdd(result.m,
                                    [t |-> "RemoteFunType",
                                     module |-> to_atom_name(e.module)[1],
                                     funame |-> to_atom_name(e.function)[1],
                                     arity |-> Arity(Len(a.ids))])
                    fun == MbAdd(remote.m,
                                 [t |-> "FunType", args |-> a.ids, result |-> result.id])
                IN  IF a.panic THEN MbPanic(a.m)
                    ELSE [m |-> [fun.m EXCEPT
                                   !.graph = TyAddEdge(@, fun.id, remote.id, "")],
                          id |-> result.id, ids |-> <<>>, panic |-> FALSE]
      [] e.e = "Cons" ->
           LET head == MbParseExpr(m, e.head)
               tail == MbParseExpr(head.m, e.tail)
           IN  IF head.panic THEN MbPanic(head.m)
               ELSE IF tail.panic THEN MbPanic(tail.m)
               ELSE MbAdd(tail.m, [t |-> "ConsType", head |-> head.id, tail |-> tail.id])
      [] OTHER -> MbPanic(m)

spec_clause_to_graph(m, f) ==
    IF f.constraints # <<>> THEN MbPanic(m)
    ELSE LET args == MbEach(m, f.args, "type")
             result == AddType(args.m, f.return_type)
         IN  IF args.panic THEN MbPanic(args.m)
             ELSE IF result.panic THEN MbPanic(result.m)
             ELSE MbAdd(result.m, [t |-> "FunType", args |-> args.ids, result |-> result.id])

fun_clause_to_graph(m, c) ==
    IF c.guards # <<>> \/ c.body = <<>> THEN MbPanic(m)
    ELSE LET args == MbEach([m EXCEPT !.bindings = BindingsScopeIn(@)], c.patterns, "pattern")
             body == MbEach(args.m, c.body, "expr")
         IN  IF args.panic THEN MbPanic(args.m)
             ELSE IF body.panic THEN MbPanic(body.m)
             ELSE MbAdd([body.m EXCEPT !.bindings = BindingsScopeOut(@)],
                        [t |-> "FunType", args |-> args.ids,
                         result |-> body.ids[Len(body.ids)]])

\* xs.iter().map(..).collect(): the ids the calls yield, in order, up to a panic
MbEach(m, xs, what) ==
    IF xs = <<>> THEN [m |-> m, id |-> 0, ids |-> <<>>, panic |-> FALSE]
    ELSE LET h == CASE what = "pattern" -> MbParsePattern(m, Head(xs))
                    [] what = "expr" -> MbParseExpr(m, Head(xs))
                    [] what = "type" -> AddType(m, Head(xs))
                    [] what = "spec_clause" -> spec_clause_to_graph(m, Head(xs))
                    [] what = "fun_clause" -> fun_clause_to_graph(m, Head(xs))
             t == MbEach(h.m, Tail(xs), what)
         IN  IF h.panic THEN MbPanic(h.m)
             ELSE [m |-> t.m, id |-> 0, ids |-> <<h.id>> \o t.ids, panic |-> t.panic]

\* the node a Spec or Fun form is registered under
MbClausesNode(m, ids) ==
    IF Len(ids) = 1 THEN [m |-> m, id |-> ids[1], ids |-> <<>>, panic |-> FALSE]
    ELSE MbAdd(m, [t |-> "UnionType", types |-> ids])

handle_form(m, form) ==
    CASE form.f = "Module" -> [m |-> [m EXCEPT !.name = Some(form.name)], panic |-> FALSE]
      [] form.f = "Spec" ->
           IF form.types = <<>> THEN [m |-> m, panic |-> TRUE]
           ELSE LET arity == Arity(Len(form.types[1].args))
                    clauses == MbEach(m, form.types, "spec_clause")
                    node == MbClausesNode(clauses.m, clauses.ids)
                IN  IF clauses.panic THEN [m |-> clauses.m, panic |-> TRUE]
                    ELSE [m |-> [node.m EXCEPT
                                   !.specs = (Local(form.name, arity) :> node.id) @@ @],
                          panic |-> FALSE]
      [] form.f = "Fun" ->
           IF form.clauses = <<>> THEN [m |-> m, panic |-> TRUE]
           ELSE LET arity == Arity(Len(form.clauses[1].patterns))
                    clauses == MbEach(m, form.clauses, "fun_clause")
                    node == MbClausesNode(clauses.m, clauses.ids)
                IN  IF clauses.panic THEN [m |-> clauses.m, panic |-> TRUE]
                    ELSE [m |-> [node.m EXCEPT
                                   !.funs = (Local(form.name, arity) :> node.id) @@ @],
                          panic |-> FALSE]
      [] form.f \in {"Export", "ExportType", "File", "Eof"} -> [m |-> m, panic |-> FALSE]
      [] OTHER -> [m |-> m, panic |-> TRUE]

\* the "spec" edges of build: one from each function that has a spec
SpecEdges(m) ==
    [m.graph EXCEPT !.edges = @ \cup
        {<<m.funs[key], m.specs[key], "spec">> : key \in DOMAIN m.specs \cap DOMAIN m.funs}]

\* the LocalFunType nodes of build, added in the order the map yields its keys
RECURSIVE LocalFunNodes(_, _, _)
LocalFunNodes(g, funs, order) ==
    IF order = <<>> THEN g
    ELSE LET key == Head(order)
             node == TyAddNode(g, [t |-> "LocalFunType", funame |-> key.name,
                                   arity |-> key.arity])
         IN  LocalFunNodes(TyAddEdge(node.g, node.id, funs[key], ""), funs, Tail(order))

OrdersOf(S) == {o \in [1..Cardinality(S) -> S] : Range(o) = S}

ModuleEnv == UNCHANGED <<graph, bindings, ctl, vals, decl, hist, fs_ok, beam, ast, env, tenv, call>>

\* Module::from_beam_file up to the first form
FromBeamFile ==
    /\ status = "start"
    /\ IF ast = None
       THEN returned' = "Err" /\ status' = "done" /\ UNCHANGED <<forms, mb>>
       ELSE /\ forms' = ast[1] /\ mb' = ModuleBuilderNew
            /\ status' = "lowering" /\ UNCHANGED returned
    /\ ModuleEnv

\* one turn of the loop of ModuleBuilder::build
HandleForm ==
    /\ status = "lowering" /\ forms # <<>>
    /\ LET r == handle_form(mb, Head(forms))
       IN  /\ mb' = r.m
           /\ IF r.panic THEN status' = "panicked" /\ forms' = forms
              ELSE status' = status /\ forms' = Tail(forms)
    /\ UNCHANGED returned
    /\ ModuleEnv

\* ModuleBuilder::build after the loop
BuildModule ==
    /\ status = "lowering" /\ forms = <<>>
    /\ IF mb.name = None
       THEN returned' = "Err" /\ mb' = mb
       ELSE /\ returned' = "Ok"
            /\ \E order \in OrdersOf(DOMAIN mb.funs) :
                 mb' = [mb EXCEPT !.graph = LocalFunNodes(SpecEdges(mb), mb.funs, order)]
    /\ status' = "done"
    /\ UNCHANGED forms
    /\ ModuleEnv

IoFormat == ERemoteCall(EAtom("io"), EAtom("format"), <<ECons(EString("hi"), ENil)>>)

Forms ==
    { FModule("m"), FExport, FExportType, FFile, FEof, FRecord,
      FSpec("f", <<TFun(<<TAtom("a")>>, TBuiltIn("list", <<TAtom("a")>>), <<>>)>>),
      FSpec("f", <<TFun(<<>>, TAtom("ok"), <<>>), TFun(<<>>, TAtom("error"), <<>>)>>),
      FSpec("f", <<TFun(<<TAtom("a")>>, TAtom("ok"), <<TAtom("c")>>)>>),
      FSpec("f", <<TFun(<<TBuiltIn("list", <<TOther>>)>>, TAtom("ok"), <<>>)>>),
      FFun("f", <<Clause(<<PVar("X")>>, <<>>, <<EVar("X")>>)>>),
      FFun("g", <<Clause(<<>>, <<>>, <<EVar("Y"), IoFormat>>)>>),
      FFun("f", <<Clause(<<PVar("X")>>, <<>>, <<ENil>>),
                  Clause(<<PVar("X"), PVar("Y")>>, <<>>, <<EAtom("ok")>>)>>),
      FFun("f", <<Clause(<<POther>>, <<>>, <<ENil>>)>>),
      FFun("f", <<Clause(<<PVar("X")>>, <<>>, <<ECons(EVar("X"), EOther)>>)>>),
      FFun("f", <<Clause(<<>>, <<OrGuard(<<GAtom("true")>>)>>, <<ENil>>)>>) }

InitModule ==
    /\ graph = GraphNew
    /\ status = "start"
    /\ bindings = <<>> /\ ctl = <<>> /\ vals = <<>> /\ hist = <<>> /\ decl = <<>>
    /\ fs_ok = TRUE /\ beam = <<>>
    /\ forms = <<>> /\ mb = <<>> /\ returned = "none"
    /\ env = <<>> /\ tenv = <<>> /\ call = <<>>
    /\ ast \in {None} \cup {Some(fs) : fs \in SeqsUpTo(Forms, MaxForms)}

NextModule ==
    \/ FromBeamFile
    \/ HandleForm
    \/ BuildModule

SpecModule == InitModule /\ [][NextModule]_vars

-----------------------------------------------------------------------------
(* Properties of Module::from_beam_file (SpecModule).                      *)

RECURSIVE TypeUnsupported(_)
TypeUnsupported(ty) ==
    \/ ty.ty = "Other"
    \/ ty.ty = "BuiltIn" /\ \E i \in 1..Len(ty.args) : TypeUnsupported(ty.args[i])

RECURSIVE ExprUnsupported(_)
ExprUnsupported(e) ==
    \/ e.e = "Other"
    \/ e.e = "Cons" /\ (ExprUnsupported(e.head) \/ ExprUnsupported(e.tail))
    \/ e.e = "RemoteCall" /\ \E i \in 1..Len(e.args) : ExprUnsupported(e.args[i])

\* the failures of lowering and graph building a form can hold
FormFails(form) ==
    \/ /\ form.f = "Spec"
       /\ \E i \in 1..Len(form.types) :
            \/ form.types[i].constraints # <<>>
            \/ TypeUnsupported(form.types[i].return_type)
            \/ \E j \in 1..Len(form.types[i].args) : TypeUnsupported(form.types[i].args[j])
    \/ /\ form.f = "Fun"
       /\ \E i \in 1..Len(form.clauses) :
            \/ Len(form.clauses[i].patterns) # Len(form.clauses[1].patterns)
            \/ \E j \in 1..Len(form.clauses[i].patterns) : form.clauses[i].patterns[j].p = "Other"
            \/ \E j \in 1..Len(form.clauses[i].body) : ExprUnsupported(form.clauses[i].body[j])

\* the first form of the module that is not handled without a failure
FirstFailure(fs) ==
    {i \in 1..Len(fs) :
        /\ FormFails(fs[i])
        /\ \A j \in 1..(i - 1) :
             ~FormFails(fs[j]) /\ ~handle_form(ModuleBuilderNew, fs[j]).panic}

\* C10: when the forms of the module hold a lowering or graph-builder
\* failure, Module::from_beam_file ends by returning an error value: it
\* returns no Module and does not panic.
C10_FailuresReturned ==
    (status \in {"done", "panicked"} /\ ast # None /\ FirstFailure(ast[1]) # {}) =>
        (status = "done" /\ returned = "Err")

-----------------------------------------------------------------------------
(* env: the environment of modules, keyed by module name.                  *)

MaxAdds == 3

EnvNew == EmptyMap

\* add_module without its assertion: a later module of the same name replaces
EnvAddModuleReplace(e, module) ==
    [env |-> (module.name :> module) @@ e, panic |-> FALSE]
EnvAddModule(e, module) ==
    IF module.name \in DOMAIN e THEN [env |-> e, panic |-> TRUE]
    ELSE [env |-> (module.name :> module) @@ e, panic |-> FALSE]

\* a module::Module of the given name; `fun` tells modules of one name apart
ModuleOf(name, fun) ==
    [name |-> name, graph |-> TyGraphNew, funs |-> (Local(fun, 0) :> 0)]
Modules == {ModuleOf(name, fun) : name \in {"a", "b", "c"}, fun \in {"f", "g"}}

EnvEnv == UNCHANGED <<graph, bindings, ctl, vals, decl, hist, fs_ok, beam, forms, mb,
                      returned, ast, tenv>>

\* Env::add_module; `call` is the history of the modules given to it
AddModule ==
    /\ status = "running" /\ Len(call) < MaxAdds
    /\ \E module \in Modules :
         LET r == EnvAddModule(env, module)
         IN  /\ env' = r.env
             /\ call' = Append(call, module)
             /\ status' = IF r.panic THEN "panicked" ELSE "running"
    /\ EnvEnv

InitEnv ==
    /\ graph = GraphNew
    /\ status = "running"
    /\ bindings = <<>> /\ ctl = <<>> /\ vals = <<>> /\ hist = <<>> /\ decl = <<>>
    /\ fs_ok = TRUE /\ beam = <<>>
    /\ forms = <<>> /\ mb = <<>> /\ returned = "none" /\ ast = <<>>
    /\ env = EnvNew /\ tenv = <<>> /\ call = <<>>

NextEnv == AddModule

SpecEnv == InitEnv /\ [][NextEnv]_vars

-----------------------------------------------------------------------------
(* Properties of env::Env (SpecEnv).                                       *)

\* the first module of each name given to add_module
FirstAdded(name) ==
    call[CHOOSE i \in 1..Len(call) :
           call[i].name = name /\ \A j \in 1..(i - 1) : call[j].name # name]

C11_ModulesState ==
    /\ DOMAIN env = {call[i].name : i \in 1..Len(call)}
    /\ \A name \in DOMAIN env : env[name].name = name /\ env[name] = FirstAdded(name)

C11_DuplicateStep ==
    (Len(call') = Len(call) + 1 /\ call'[Len(call')].name \in DOMAIN env) =>
        (status' = "panicked" /\ env' = env)

\* C11: the modules map holds one entry for each module name that was
\* added, stored under the name of its own module, and it is the first
\* module added under that name; an add_module of a name that is already a
\* key panics and leaves the map as it was.
C11_Modules == []C11_ModulesState /\ [][C11_DuplicateStep]_vars

\* a duplicate add_module has been rejected while another module is stored
C11_Witness ==
    /\ status = "panicked" /\ Cardinality(DOMAIN env) = 2
    /\ env[call[Len(call)].name] # call[Len(call)]

-----------------------------------------------------------------------------
(* ty: the other types, the type classes and make_instance.  A call that   *)
(* yields a type returns Returned(ty); one that panics returns Panicked.   *)

MaxTypeArgs == 2

Returned(ty) == [panic |-> FALSE, ty |-> ty]
Panicked == [panic |-> TRUE]

PidType == [t |-> "Pid"]
PortType == [t |-> "Port"]
ReferenceType == [t |-> "Reference"]
FloatType == [t |-> "Float"]
AtomTypeAny == [t |-> "Atom", value |-> None]
BitstringAlign(n) == [t |-> "Bitstring", bits |-> None, align |-> Some(n)]
FunTypeAny == [t |-> "Fun", clauses |-> <<>>]
MapTypeAny == [t |-> "Map", pairs |-> <<>>]
TupleTypeAny == [t |-> "Tuple", elements |-> None]
tuple3(t0, t1, t2) == [t |-> "Tuple", elements |-> Some(<<t0, t1, t2>>)]
\* Var.value is the field `bound` here
VarNew(name) == [t |-> "Var", name |-> name, bound |-> None]
union(types) == [t |-> "Union", types |-> types]
local(name, args) == [t |-> "Local", name |-> name, args |-> args]
builtin(name, args) == local(name, args)
builtin0(name) == local(name, <<>>)
builtin1(name, a0) == local(name, <<a0>>)
builtin2(name, a0, a1) == local(name, <<a0, a1>>)
ProperListType(element) == [t |-> "List", kind |-> "Proper", element |-> element]
MaybeImproperListType(element, last) ==
    [t |-> "List", kind |-> "MaybeImproper", element |-> element, last |-> last]
NonEmptyListType(element) == [t |-> "List", kind |-> "NonEmpty", element |-> element]
NonEmptyImproperListType(element, last) ==
    [t |-> "List", kind |-> "NonEmptyImproper", element |-> element, last |-> last]
UserDefinedType(is_opaque, name, body) ==
    [t |-> "UserDefined", is_opaque |-> is_opaque, name |-> name, body |-> body]

\* i64 values, written as BigInt writes them
IsI64(x) == ToI64(x) # None
Neg(x) == BigInt(0 - x.q, 0 - x.r)
Leq(x, y) == x.q < y.q \/ (x.q = y.q /\ x.r <= y.r)

IntegerGetSingleValue(ty) == IF ty.min = ty.max THEN ty.min ELSE None
IntegerIsAny(ty) == ty.min = None /\ ty.max = None

\* the type classes: a prototype is its own class
Proto(ty) == [class |-> "Proto", proto |-> ty]
ProperListClass == [class |-> "ProperListClass"]
MaybeImproperListClass == [class |-> "MaybeImproperListClass"]
NonEmptyListClass == [class |-> "NonEmptyListClass"]
NonEmptyImproperListClass == [class |-> "NonEmptyImproperListClass"]
UserDefinedClass(is_opaque, name, tvars, body) ==
    [class |-> "UserDefinedClass", is_opaque |-> is_opaque, name |-> name,
     vars |-> tvars, body |-> body]

\* Type::bind is unimplemented!()
TypeBind(ty, tvars, args) == Panicked

ProtoMakeInstance(proto, args) == IF args # <<>> THEN Panicked ELSE Returned(proto)

ProperListMakeInstance(args) ==
    IF Len(args) # 1 THEN Panicked ELSE Returned(ProperListType(args[1]))
\* the class with its two arguments taken in the other order
MaybeImproperListSwapped(args) ==
    IF Len(args) # 2 THEN Panicked ELSE Returned(MaybeImproperListType(args[2], args[1]))
MaybeImproperListMakeInstance(args) ==
    IF Len(args) # 2 THEN Panicked ELSE Returned(MaybeImproperListType(args[1], args[2]))
NonEmptyListMakeInstance(args) ==
    IF Len(args) # 1 THEN Panicked ELSE Returned(NonEmptyListType(args[1]))
NonEmptyImproperListMakeInstance(args) ==
    IF Len(args) # 2 THEN Panicked
    ELSE Returned(NonEmptyImproperListType(args[1], args[2]))
UserDefinedMakeInstance(c, args) ==
    IF Len(c.vars) # Len(args) THEN Panicked
    ELSE LET body == TypeBind(c.body, c.vars, args)
         IN  IF body.panic THEN Panicked
             ELSE Returned(UserDefinedType(c.is_opaque, c.name, body.ty))

MakeInstance(c, args) ==
    CASE c.class = "Proto" -> ProtoMakeInstance(c.proto, args)
      [] c.class = "ProperListClass" -> ProperListMakeInstance(args)
      [] c.class = "MaybeImproperListClass" -> MaybeImproperListMakeInstance(args)
      [] c.class = "NonEmptyListClass" -> NonEmptyListMakeInstance(args)
      [] c.class = "NonEmptyImproperListClass" -> NonEmptyImproperListMakeInstance(args)
      [] c.class = "UserDefinedClass" -> UserDefinedMakeInstance(c, args)

-----------------------------------------------------------------------------
(* ast: the lowering of the types of the AST (FromAst for ty::Type).       *)

TInteger(value) == [ty |-> "Integer", ivalue |-> value]
TVar(name) == [ty |-> "Var", name |-> name]
TUnaryOp(operator, operand) == [ty |-> "UnaryOp", operator |-> operator, operand |-> operand]
TBinaryOp == [ty |-> "BinaryOp"]
TNil == [ty |-> "Nil"]
TRange(low, high) == [ty |-> "Range", low |-> low, high |-> high]
TUnion(types) == [ty |-> "Union", types |-> types]
TUser(name, args) == [ty |-> "User", name |-> name, args |-> args]

\* -operand on an i64: an overflow panics in a build with overflow checks
\* and wraps in a build without them
NegI64(v, checks) ==
    IF IsI64(Neg(v)) THEN Returned(Neg(v))
    ELSE IF checks THEN Panicked ELSE Returned(v)

RECURSIVE FromAst(_, _)
RECURSIVE FromAstEach(_, _)

\* x.iter().map(FromAst::from_ast).collect(): `ty` holds the types in order
FromAstEach(xs, checks) ==
    IF xs = <<>> THEN Returned(<<>>)
    ELSE LET h == FromAst(Head(xs), checks)
             rest == FromAstEach(Tail(xs), checks)
         IN  IF h.panic \/ rest.panic THEN Panicked
             ELSE Returned(<<h.ty>> \o rest.ty)

FromAst(x, checks) ==
    CASE x.ty = "Atom" -> Returned(atom(x.value))
      [] x.ty = "Integer" ->
           IF ToI64(x.ivalue) # None
           THEN Returned(IntegerValue(integer, ToI64(x.ivalue)[1]))
           ELSE Returned(integer)
      [] x.ty = "Var" -> Returned(VarNew(x.name))
      [] x.ty = "UnaryOp" ->
           IF x.operator # "'-'" THEN Panicked
           ELSE LET operand == FromAst(x.operand, checks)
                IN  IF operand.panic THEN Panicked
                    ELSE IF operand.ty.t # "Integer" THEN Panicked
                    ELSE IF IntegerGetSingleValue(operand.ty) = None THEN Panicked
                    ELSE LET n == NegI64(IntegerGetSingleValue(operand.ty)[1], checks)
                         IN  IF n.panic THEN Panicked
                             ELSE Returned(IntegerValue(integer, n.ty))
      [] x.ty = "Nil" -> Returned(NilType)
      [] x.ty = "Range" ->
           LET low == FromAst(x.low, checks)
               high == FromAst(x.high, checks)
               range1 == IF IntegerIsAny(low.ty) THEN integer
                         ELSE IntegerMin(integer, IntegerGetSingleValue(low.ty)[1])
               range2 == IF IntegerIsAny(high.ty) THEN range1
                         ELSE IntegerMax(range1, IntegerGetSingleValue(high.ty)[1])
           IN  IF low.panic THEN Panicked
               ELSE IF low.ty.t # "Integer" THEN Panicked
               ELSE IF ~IntegerIsAny(low.ty) /\ IntegerGetSingleValue(low.ty) = None
                    THEN Panicked
               ELSE IF high.panic THEN Panicked
               ELSE IF high.ty.t # "Integer" THEN Panicked
               ELSE IF ~IntegerIsAny(high.ty) /\ IntegerGetSingleValue(high.ty) = None
                    THEN Panicked
               ELSE Returned(range2)
      [] x.ty = "BuiltIn" ->
           LET args == FromAstEach(x.args, checks)
           IN  IF args.panic THEN Panicked ELSE Returned(builtin(x.name, args.ty))
      [] x.ty = "Union" ->
           LET types == FromAstEach(x.types, checks)
           IN  IF types.panic THEN Panicked ELSE Returned(union(types.ty))
      [] x.ty = "User" ->
           LET args == FromAstEach(x.args, checks)
           IN  IF args.panic THEN Panicked ELSE Returned(local(x.name, args.ty))
      [] OTHER -> Panicked

\* FromAst for Box<TypeClass>: the class of a type declaration
TypeDecl(is_opaque, name, tvars, ty) ==
    [is_opaque |-> is_opaque, name |-> name, vars |-> tvars, ty |-> ty]
TypeDeclToTypeClass(d, checks) ==
    LET body == FromAst(d.ty, checks)
    IN  IF body.panic THEN Panicked
        ELSE Returned(UserDefinedClass(d.is_opaque, d.name, d.vars, body.ty))

-----------------------------------------------------------------------------
(* The calls on types (SpecTy): `call` is the last call and its outcome.   *)

ArgTypes == {integer, atom("undefined"), VarNew("T")}
OptClass == UserDefinedClass(FALSE, "opt", <<"T">>, union(<<VarNew("T"), atom("undefined")>>))
Classes ==
    { Proto(AnyType), Proto(integer), Proto(AtomTypeAny), Proto(NilType),
      Proto(builtin1("list", builtin0("any"))),
      ProperListClass, MaybeImproperListClass, NonEmptyListClass,
      NonEmptyImproperListClass,
      OptClass,
      UserDefinedClass(TRUE, "id", <<>>, integer),
      UserDefinedClass(FALSE, "pair", <<"A", "B">>, tuple3(VarNew("A"), VarNew("B"), VarNew("A"))) }

I64Samples == {Neg(BigInt(1, 1)), Neg(Small(1)), Small(0), Small(3), Small(5), BigInt(1, 0)}

\* literals: small ones, two that need more than 32 bits, 2^63 and a larger one
Literals == {TInteger(v) : v \in {Small(0), Small(3), Small(5), BigInt(1, 0), BigInt(1, 1),
                                  BigInt(2, 0), BigInt(4, 0)}}
Leaves == Literals \cup {TVar("T"), TAtom("a"), TNil, TBinaryOp}
Negations ==
    {TUnaryOp("'-'", x) : x \in Leaves \cup {TUnaryOp("'-'", l) : l \in Literals}}
    \cup {TUnaryOp("'bnot'", TInteger(Small(3)))}
Endpoints ==
    Literals \cup {TUnaryOp("'-'", l) : l \in Literals}
    \cup {TVar("T"), TAtom("a"), TRange(TInteger(Small(0)), TInteger(Small(3)))}
Ranges == {TRange(lo, hi) : lo \in Endpoints, hi \in Endpoints}
AstTypes ==
    Leaves \cup Negations \cup Ranges
    \cup { TUnion(<<TVar("T"), TAtom("undefined")>>),
           TUnion(<<TInteger(Small(3)), TBinaryOp>>),
           TBuiltIn("list", <<TInteger(Small(3))>>),
           TUser("opt", <<TNil>>) }

TyEnv == UNCHANGED <<graph, bindings, ctl, vals, decl, hist, fs_ok, beam, forms, mb,
                     returned, ast, env, tenv>>

Outcome(c) ==
    /\ call' = c
    /\ status' = IF c.out.panic THEN "panicked" ELSE "running"
    /\ TyEnv

MakeInstanceCall ==
    /\ status = "running"
    /\ \E c \in Classes, args \in SeqsUpTo(ArgTypes, MaxTypeArgs) :
         Outcome([op |-> "make_instance", class |-> c, args |-> args,
                  out |-> MakeInstance(c, args)])

IntegerCall ==
    /\ status = "running"
    /\ Outcome([op |-> "integer", out |-> Returned(integer)])

IsIntegerCall == call.op \in {"integer", "min", "max", "value"}

IntegerMinCall ==
    /\ status = "running" /\ IsIntegerCall
    /\ \E v \in I64Samples :
         Outcome([op |-> "min", self |-> call.out.ty, value |-> v,
                  out |-> Returned(IntegerMin(call.out.ty, v))])

IntegerMaxCall ==
    /\ status = "running" /\ IsIntegerCall
    /\ \E v \in I64Samples :
         Outcome([op |-> "max", self |-> call.out.ty, value |-> v,
                  out |-> Returned(IntegerMax(call.out.ty, v))])

IntegerValueCall ==
    /\ status = "running" /\ IsIntegerCall
    /\ \E v \in I64Samples :
         Outcome([op |-> "value", self |-> call.out.ty, value |-> v,
                  out |-> Returned(IntegerValue(call.out.ty, v))])

\* the decimal text of a natural number
RECURSIVE Digits(_)
Digits(n) ==
    LET digit == <<"0", "1", "2", "3", "4", "5", "6", "7", "8", "9">>[(n % 10) + 1]
    IN  IF n < 10 THEN digit ELSE Digits(n \div 10) \o digit

\* "{}" of an i64.  A value that needs more than 32 bits is written as
\* q*2^62+r, a text that tells the values apart as their decimals do.
DisplayI64(v) ==
    LET signed(n) == IF n < 0 THEN "-" \o Digits(-n) ELSE Digits(n)
    IN  IF v.q = 0 THEN signed(v.r) ELSE signed(v.q) \o "*2^62+" \o signed(v.r)

\* Display for IntegerType
IntegerDisplay(ty) ==
    IF ty.min # None /\ ty.max # None /\ ty.min[1] # ty.max[1]
    THEN DisplayI64(ty.min[1]) \o ".." \o DisplayI64(ty.max[1])
    ELSE IF ty.min # None /\ ty.max # None THEN DisplayI64(ty.min[1])
    ELSE "integer()"

\* to_string of the Integer type the last constructor call returned
IntegerDisplayCall ==
    /\ status = "running" /\ IsIntegerCall
    /\ Outcome([op |-> "fmt", self |-> call.out.ty,
                out |-> [panic |-> FALSE, text |-> IntegerDisplay(call.out.ty)]])

FromAstCall ==
    /\ status = "running"
    /\ \E x \in AstTypes, checks \in BOOLEAN :
         Outcome([op |-> "from_ast", ast |-> x, checks |-> checks,
                  out |-> FromAst(x, checks)])

InitTy ==
    /\ graph = GraphNew
    /\ status = "running"
    /\ bindings = <<>> /\ ctl = <<>> /\ vals = <<>> /\ hist = <<>> /\ decl = <<>>
    /\ fs_ok = TRUE /\ beam = <<>>
    /\ forms = <<>> /\ mb = <<>> /\ returned = "none" /\ ast = <<>>
    /\ env = <<>> /\ tenv = <<>> /\ call = [op |-> "none"]

NextTy ==
    \/ MakeInstanceCall
    \/ IntegerCall
    \/ IntegerMinCall
    \/ IntegerMaxCall
    \/ IntegerValueCall
    \/ IntegerDisplayCall
    \/ FromAstCall

SpecTy == InitTy /\ [][NextTy]_vars

-----------------------------------------------------------------------------
(* Properties of the types (SpecTy).                                       *)

IsCallOf(op) == call.op = op

\* the type `ty` with every variable of tvars replaced by its argument
RECURSIVE Substituted(_, _, _)
Substituted(ty, tvars, args) ==
    CASE ty.t = "Var" ->
           IF \E i \in 1..Len(tvars) : tvars[i] = ty.name
           THEN args[CHOOSE i \in 1..Len(tvars) : tvars[i] = ty.name]
           ELSE ty
      [] ty.t = "Union" ->
           [ty EXCEPT !.types = [i \in 1..Len(ty.types) |->
                                   Substituted(ty.types[i], tvars, args)]]
      [] ty.t = "Tuple" /\ ty.elements # None ->
           [ty EXCEPT !.elements = Some([i \in 1..Len(ty.elements[1]) |->
                                           Substituted(ty.elements[1][i], tvars, args)])]
      [] OTHER -> ty

\* C13: make_instance of a user-defined class on as many arguments as the
\* class has variables returns the UserDefined type of the class's name and
\* opacity whose body is the class's body with each variable replaced by
\* its argument (opt(T) :: T | undefined on integer() gives the body
\* integer() | undefined); on another number of arguments it panics.
C13_UserDefinedInstance ==
    (IsCallOf("make_instance") /\ call.class.class = "UserDefinedClass") =>
        IF Len(call.args) = Len(call.class.vars)
        THEN /\ ~call.out.panic
             /\ call.out.ty = UserDefinedType(call.class.is_opaque, call.class.name,
                                  Substituted(call.class.body, call.class.vars, call.args))
             /\ ((call.class = OptClass /\ call.args = <<integer>>) =>
                    call.out.ty.body = union(<<integer, atom("undefined")>>))
        ELSE call.out.panic

\* C14: make_instance of a prototype returns the prototype on no argument
\* and panics on any argument; the ProperList and NonEmptyList classes take
\* exactly one argument, the MaybeImproperList and NonEmptyImproperList
\* classes exactly two, and return the list type of these arguments in
\* their order; on another number of arguments they panic.
C14_MakeInstanceArity ==
    IsCallOf("make_instance") =>
        LET c == call.class.class
            args == call.args
            out == call.out
            Is(n, ty) == IF Len(args) = n THEN ~out.panic /\ out.ty = ty ELSE out.panic
        IN  /\ c = "Proto" => Is(0, call.class.proto)
            /\ c = "ProperListClass" =>
                 Is(1, [t |-> "List", kind |-> "Proper", element |-> args[1]])
            /\ c = "NonEmptyListClass" =>
                 Is(1, [t |-> "List", kind |-> "NonEmpty", element |-> args[1]])
            /\ c = "MaybeImproperListClass" =>
                 Is(2, [t |-> "List", kind |-> "MaybeImproper",
                        element |-> args[1], last |-> args[2]])
            /\ c = "NonEmptyImproperListClass" =>
                 Is(2, [t |-> "List", kind |-> "NonEmptyImproper",
                        element |-> args[1], last |-> args[2]])

\* a two-argument list class has returned a list of two different types
C14_Witness ==
    /\ IsCallOf("make_instance") /\ call.class.class = "MaybeImproperListClass"
    /\ ~call.out.panic /\ call.args[1] # call.args[2]

\* C17: an Integer type that a constructor or the lowering returns has
\* min <= max when it has both bounds.
C17_IntervalOrdered ==
    (/\ call.op \in {"integer", "min", "max", "value", "from_ast"} /\ ~call.out.panic
     /\ call.out.ty.t = "Integer" /\ call.out.ty.min # None /\ call.out.ty.max # None) =>
        Leq(call.out.ty.min[1], call.out.ty.max[1])

IsUnaryMinus == IsCallOf("from_ast") /\ call.ast.ty = "UnaryOp" /\ call.ast.operator = "'-'"
Singleton(v) == [t |-> "Integer", min |-> <<v>>, max |-> <<v>>]
\* the single value the operand of the call lowers to, if it does
OperandValue ==
    LET operand == FromAst(call.ast.operand, call.checks)
    IN  IF operand.panic THEN None
        ELSE IF operand.ty.t # "Integer" THEN None
        ELSE IntegerGetSingleValue(operand.ty)

\* C18: the lowering of -N, N a literal whose negation fits an i64, is the
\* singleton of -N; the negation of an operand's value never leaves the
\* i64 range; and on an operand that does not lower to a singleton integer
\* the lowering ends with an error, not with a type or a panic.
C18_UnaryMinus ==
    IsUnaryMinus =>
        /\ (call.ast.operand.ty = "Integer" /\ IsI64(Neg(call.ast.operand.ivalue))) =>
              (~call.out.panic /\ call.out.ty = Singleton(Neg(call.ast.operand.ivalue)))
        /\ OperandValue # None =>
              /\ IsI64(Neg(OperandValue[1]))
              /\ ~call.out.panic /\ call.out.ty = Singleton(Neg(OperandValue[1]))
        /\ OperandValue = None => status = "error"

\* the lowering of an endpoint of the range of the call
Endpoint(x) == FromAst(x, call.checks)
IsIntegerEndpoint(x) == ~Endpoint(x).panic /\ Endpoint(x).ty.t = "Integer"
Bound(x) == IF IntegerIsAny(Endpoint(x).ty) THEN None ELSE IntegerGetSingleValue(Endpoint(x).ty)

\* C19: a literal lowers to its singleton when it fits an i64 and to
\* integer() otherwise; a range lowers to the Integer type whose min and max
\* are the single values of its endpoints, a bound being absent when the
\* endpoint lowered to integer(); and a range with an endpoint that does not
\* lower to an Integer type ends with an error, not with a type or a panic.
C19_LiteralsAndRanges ==
    IsCallOf("from_ast") =>
        /\ call.ast.ty = "Integer" =>
              /\ ~call.out.panic
              /\ call.out.ty = IF IsI64(call.ast.ivalue) THEN Singleton(call.ast.ivalue)
                               ELSE [t |-> "Integer", min |-> <<>>, max |-> <<>>]
        /\ call.ast.ty = "Range" =>
              IF IsIntegerEndpoint(call.ast.low) /\ IsIntegerEndpoint(call.ast.high)
              THEN /\ ~call.out.panic
                   /\ call.out.ty = [t |-> "Integer", min |-> Bound(call.ast.low),
                                     max |-> Bound(call.ast.high)]
              ELSE status = "error"

-----------------------------------------------------------------------------
(* typing: the analysis environment and its dictionary of type classes.    *)

MaxLoads == 2

TypeKeyBuiltin(name, arity) == [module |-> None, name |-> name, arity |-> arity]
\* a key that drops the module, a variant the dictionary properties reject
TypeKeyUnqualified(module, name, arity) == [module |-> None, name |-> name, arity |-> arity]
TypeKeyRemote(module, name, arity) == [module |-> Some(module), name |-> name, arity |-> arity]

a0(name) == TypeKeyBuiltin(name, 0)
a1(name) == TypeKeyBuiltin(name, 1)
a2(name) == TypeKeyBuiltin(name, 1)

Entry(key, class) == [key |-> key, class |-> class]

built_in_types ==
    << Entry(a0("any"), Proto(AnyType)),
       Entry(a0("none"), Proto(NoneType)),
       Entry(a0("pid"), Proto(PidType)),
       Entry(a0("port"), Proto(PortType)),
       Entry(a0("reference"), Proto(ReferenceType)),
       Entry(a0("nil"), Proto(NilType)),
       Entry(a0("atom"), Proto(AtomTypeAny)),
       Entry(a0("float"), Proto(FloatType)),
       Entry(a0("fun"), Proto(FunTypeAny)),
       Entry(a0("integer"), Proto(integer)),
       Entry(a1("list"), ProperListClass),
       Entry(a2("maybe_improper_list"), MaybeImproperListClass),
       Entry(a2("nonempty_improper_list"), NonEmptyImproperListClass),
       Entry(a1("nonempty_list"), NonEmptyListClass),
       Entry(a0("map"), Proto(MapTypeAny)),
       Entry(a0("tuple"), Proto(TupleTypeAny)),
       Entry(a0("non_neg_integer"), Proto(IntegerMin(integer, Small(0)))),
       Entry(a0("pos_integer"), Proto(IntegerMin(integer, Small(1)))),
       Entry(a0("neg_integer"), Proto(IntegerMax(integer, Neg(Small(1))))),
       Entry(a0("term"), Proto(builtin0("any"))),
       Entry(a0("binary"), Proto(BitstringAlign(8))),
       Entry(a0("bitstring"), Proto(BitstringAlign(1))),
       Entry(a0("boolean"), Proto(union(<<atom("true"), atom("false")>>))),
       Entry(a0("byte"), Proto(IntegerMax(IntegerMin(integer, Small(0)), Small(255)))),
       Entry(a0("char"), Proto(IntegerMax(IntegerMin(integer, Small(0)), Small(1114111)))),
       Entry(a0("number"), Proto(union(<<builtin0("integer"), builtin0("float")>>))),
       Entry(a0("list"), Proto(builtin1("list", builtin0("any")))),
       Entry(a0("maybe_improper_list"),
             Proto(builtin2("maybe_improper_list", builtin0("any"), builtin0("any")))),
       Entry(a0("nonempty_list"), Proto(builtin1("nonempty_list", builtin0("any")))),
       Entry(a0("string"), Proto(builtin1("list", builtin0("char")))),
       Entry(a0("nonempty_string"), Proto(builtin1("nonempty_list", builtin0("char")))),
       Entry(a0("iodata"), Proto(union(<<builtin0("iolist"), builtin0("binary")>>))),
       Entry(a0("iolist"),
             Proto(builtin1("maybe_improper_list",
                            union(<<builtin0("byte"), builtin0("binary"), builtin0("iolist"),
                                    builtin0("binary"), builtin0("nil")>>)))),
       Entry(a0("function"), Proto(builtin0("fun"))),
       Entry(a0("module"), Proto(builtin0("atom"))),
       Entry(a0("mfa"), Proto(tuple3(builtin0("module"), builtin0("atom"), builtin0("arity")))),
       Entry(a0("arity"), Proto(IntegerMax(IntegerMin(integer, Small(0)), Small(255)))),
       Entry(a0("identifier"),
             Proto(union(<<builtin0("pid"), builtin0("port"), builtin0("reference")>>))),
       Entry(a0("node"), Proto(builtin0("atom"))),
       Entry(a0("timeout"), Proto(union(<<atom("infinity"), builtin0("non_neg_integer")>>))),
       Entry(a0("no_return"), Proto(NoneType)) >>

\* HashMap::from_iter: a later entry of a key replaces an earlier one
RECURSIVE FromIter(_, _)
FromIter(entries, n) ==
    IF n = 0 THEN EmptyMap
    ELSE (entries[n].key :> entries[n].class) @@ FromIter(entries, n - 1)

TypingEnvNew ==
    [modules |-> <<>>, types |-> FromIter(built_in_types, Len(built_in_types)),
     specs |-> EmptyMap]

FType(d) == [f |-> "Type", decl |-> d]
\* a beam::Module, of which the environment reads the forms only
BeamModule(fs) == [ast |-> fs]

\* the name of the first -module form: filter_map(..).nth(0)
RECURSIVE ModuleNameOf(_)
ModuleNameOf(fs) ==
    IF fs = <<>> THEN None
    ELSE IF Head(fs).f = "Module" THEN Some(Head(fs).name)
    ELSE ModuleNameOf(Tail(fs))

\* the loop of load_types over the forms
RECURSIVE LoadTypeForms(_, _, _, _)
LoadTypeForms(e, module_name, fs, checks) ==
    IF fs = <<>> THEN [env |-> e, panic |-> FALSE]
    ELSE IF Head(fs).f # "Type" THEN LoadTypeForms(e, module_name, Tail(fs), checks)
    ELSE LET d == Head(fs).decl
             key == TypeKeyRemote(module_name, d.name, Len(d.vars) % 256)
             value == TypeDeclToTypeClass(d, checks)
         IN  IF value.panic THEN [env |-> e, panic |-> TRUE]
             ELSE LoadTypeForms([e EXCEPT !.types = (key :> value.ty) @@ @],
                                module_name, Tail(fs), checks)

LoadTypes(e, module, checks) ==
    IF ModuleNameOf(module.ast) = None THEN [env |-> e, panic |-> TRUE]
    ELSE LoadTypeForms(e, ModuleNameOf(module.ast)[1], module.ast, checks)

\* load_specs is unimplemented!()
LoadSpecs(e, module) == [env |-> e, panic |-> TRUE]

TypingAddModule(e, module, checks) ==
    LET t == LoadTypes(e, module, checks)
        sp == LoadSpecs(t.env, module)
    IN  IF t.panic THEN t
        ELSE IF sp.panic THEN sp
        ELSE [env |-> [sp.env EXCEPT !.modules = Append(@, module)], panic |-> FALSE]

OptDecl == TypeDecl(FALSE, "opt", <<"T">>, TUnion(<<TVar("T"), TAtom("undefined")>>))
TypeForms ==
    { FType(OptDecl),
      FType(TypeDecl(FALSE, "list", <<"T">>, TUser("opt", <<TVar("T")>>))),
      FType(TypeDecl(TRUE, "integer", <<>>, TAtom("a"))),
      FType(TypeDecl(FALSE, "bits", <<>>, TBinaryOp)) }
BeamModules ==
    {BeamModule(<<FModule(name)>> \o fs) : name \in {"a", "b"}, fs \in SeqsUpTo(TypeForms, 2)}
    \cup {BeamModule(<<FFile, FModule("a"), FType(OptDecl), FEof>>),
          BeamModule(<<FType(OptDecl)>>)}

TypingEnv == UNCHANGED <<graph, bindings, ctl, vals, decl, hist, fs_ok, beam, forms, mb,
                         returned, ast, env>>

\* a call of the environment; `call` is the history of the calls
TypingCall(op, module, r) ==
    /\ tenv' = r.env
    /\ call' = Append(call, [op |-> op, module |-> module])
    /\ status' = IF r.panic THEN "panicked" ELSE "running"
    /\ TypingEnv

AddModuleCall ==
    /\ status = "running" /\ Len(call) < MaxLoads
    /\ \E module \in BeamModules, checks \in BOOLEAN :
         TypingCall("add_module", module, TypingAddModule(tenv, module, checks))

LoadTypesCall ==
    /\ status = "running" /\ Len(call) < MaxLoads
    /\ \E module \in BeamModules, checks \in BOOLEAN :
         TypingCall("load_types", module, LoadTypes(tenv, module, checks))

LoadSpecsCall ==
    /\ status = "running" /\ Len(call) < MaxLoads
    /\ \E module \in BeamModules :
         TypingCall("load_specs", module, LoadSpecs(tenv, module))

InitTyping ==
    /\ graph = GraphNew
    /\ status = "running"
    /\ bindings = <<>> /\ ctl = <<>> /\ vals = <<>> /\ hist = <<>> /\ decl = <<>>
    /\ fs_ok = TRUE /\ beam = <<>>
    /\ forms = <<>> /\ mb = <<>> /\ returned = "none" /\ ast = <<>>
    /\ env = <<>> /\ tenv = TypingEnvNew /\ call = <<>>

NextTyping ==
    \/ AddModuleCall
    \/ LoadTypesCall
    \/ LoadSpecsCall

SpecTyping == InitTyping /\ [][NextTyping]_vars

-----------------------------------------------------------------------------
(* Properties of the analysis environment.                                  *)

TypeFormsOf(module) == {module.ast[i] : i \in {j \in DOMAIN module.ast : module.ast[j].f = "Type"}}
BuiltinKeys(types) == {k \in DOMAIN types : k.module = None}
ArgsOf(arity) ==
    IF arity = 1 THEN {<<x>> : x \in ArgTypes}
    ELSE {<<x, y>> : x \in ArgTypes, y \in ArgTypes}

\* C12: add_module for a loaded module completes, and afterwards the
\* environment holds the module after the ones added before it, and a type
\* class for each of its type declarations.
C12_AddModuleKeeps ==
    [][\A module \in BeamModules :
         (/\ ModuleNameOf(module.ast) # None
          /\ call' = Append(call, [op |-> "add_module", module |-> module]))
         => /\ status' = "running"
            /\ tenv'.modules = Append(tenv.modules, module)
            /\ \A t \in TypeFormsOf(module) :
                 TypeKeyRemote(ModuleNameOf(module.ast)[1], t.decl.name,
                               Len(t.decl.vars)) \in DOMAIN tenv'.types]_vars

Seeded(name, arity, class) ==
    /\ TypeKeyBuiltin(name, arity) \in DOMAIN tenv.types
    /\ tenv.types[TypeKeyBuiltin(name, arity)] = class
    /\ \A args \in ArgsOf(arity) : ~MakeInstance(class, args).panic

\* C15: the dictionary of a constructed environment maps (list, 1),
\* (nonempty_list, 1), (maybe_improper_list, 2) and
\* (nonempty_improper_list, 2) to the four list classes, and make_instance
\* of each with that many arguments succeeds.
C15_ListClassesSeeded ==
    /\ Seeded("list", 1, ProperListClass)
    /\ Seeded("nonempty_list", 1, NonEmptyListClass)
    /\ Seeded("maybe_improper_list", 2, MaybeImproperListClass)
    /\ Seeded("nonempty_improper_list", 2, NonEmptyImproperListClass)

DeclaredIn(k, module) ==
    /\ ModuleNameOf(module.ast) = k.module
    /\ \E t \in TypeFormsOf(module), checks \in BOOLEAN :
         /\ t.decl.name = k.name
         /\ Len(t.decl.vars) = k.arity
         /\ ~TypeDeclToTypeClass(t.decl, checks).panic
         /\ tenv.types[k] = TypeDeclToTypeClass(t.decl, checks).ty

\* C16: whatever modules were loaded, the keys without a module are the
\* ones of the constructed environment and map to the same classes, and
\* every other entry is the class of a declaration of a loaded module,
\* under a key that carries that module's name.
C16_BuiltinsKept ==
    /\ BuiltinKeys(tenv.types) = DOMAIN TypingEnvNew.types
    /\ \A k \in DOMAIN TypingEnvNew.types : tenv.types[k] = TypingEnvNew.types[k]
    /\ \A k \in DOMAIN tenv.types \ DOMAIN TypingEnvNew.types :
         \E i \in DOMAIN call :
           /\ call[i].op \in {"add_module", "load_types"}
           /\ DeclaredIn(k, call[i].module)

\* modules a and b both loaded, each declaring list/1 and integer/0
C16_Witness ==
    /\ status = "running"
    /\ \A m \in {"a", "b"} :
         /\ TypeKeyRemote(m, "list", 1) \in DOMAIN tenv.types
         /\ TypeKeyRemote(m, "integer", 0) \in DOMAIN tenv.types
    /\ TypeKeyBuiltin("list", 1) \in DOMAIN tenv.types

-----------------------------------------------------------------------------
(* SpecQuery: a client builds a graph with the public operations and then   *)
(* asks get_return_node or get_args about an id, which may be one the       *)
(* graph has not assigned.  `call` holds the query and its answer.          *)

Query(op, node_id, out) ==
    /\ call' = [op |-> op, id |-> node_id, out |-> out]
    /\ status' = "queried"
    /\ UNCHANGED <<graph, bindings, ctl, vals, decl, hist, fs_ok, beam, forms, mb, returned,
                   ast, env, tenv>>

ApiGetReturnNode ==
    /\ status = "running"
    /\ \E node_id \in 0..graph.next_node_id :
         Query("get_return_node", node_id, GetReturnNode(graph, node_id))

ApiGetArgs ==
    /\ status = "running"
    /\ \E node_id \in 0..graph.next_node_id :
         Query("get_args", node_id, GetArgs(graph, node_id))

NextQuery ==
    \/ ApiNewValueNode
    \/ ApiNewExternalFunNode
    \/ ApiNewLocalCallNode
    \/ ApiNewRemoteCallNode
    \/ ApiNewConj
    \/ ApiAddEdge
    \/ ApiGetReturnNode
    \/ ApiGetArgs

SpecQuery == Init /\ [][NextQuery]_vars

HasTag(node_id, tags) ==
    /\ node_id \in DOMAIN graph.nodes
    /\ graph.nodes[node_id].content.tag \in tags

\* C20: get_return_node answers the return node of a Fun, LocalCall or
\* RemoteCall node and nothing for any other id; get_args answers the
\* argument ids, in order, of a Fun, LocalCall or RemoteCall node and
\* nothing for any other id; the graph is the same after either query.
C20_Queries ==
    /\ [](status = "queried" =>
            /\ call.op = "get_return_node" =>
                 call.out = IF HasTag(call.id, {"Fun", "LocalCall", "RemoteCall"})
                            THEN Some(graph.nodes[call.id].content.return_value)
                            ELSE None
            /\ call.op = "get_args" =>
                 call.out = IF HasTag(call.id, {"Fun", "LocalCall", "RemoteCall"})
                            THEN Some(graph.nodes[call.id].content.args)
                            ELSE None)
    /\ [][status' = "queried" => graph' = graph]_vars

-----------------------------------------------------------------------------
(* Forms the module builder has no arm for (SpecModule).                    *)

\* the loop of ModuleBuilder::build over a whole form list
RECURSIVE HandleForms(_, _)
HandleForms(m, fs) ==
    IF fs = <<>> THEN [m |-> m, panic |-> FALSE]
    ELSE LET r == handle_form(m, Head(fs))
         IN  IF r.panic THEN r ELSE HandleForms(r.m, Tail(fs))

Without(fs, i) == SubSeq(fs, 1, i - 1) \o SubSeq(fs, i + 1, Len(fs))

\* the builder ended as it ends on the form list fs
EndsAsOn(fs) ==
    LET r == HandleForms(ModuleBuilderNew, fs)
    IN  /\ ~r.panic
        /\ status = "done"
        /\ returned = IF r.m.name = None THEN "Err" ELSE "Ok"
        /\ mb.name = r.m.name /\ mb.funs = r.m.funs /\ mb.specs = r.m.specs
        /\ returned = "Ok" =>
             \E order \in OrdersOf(DOMAIN r.m.funs) :
               mb.graph = LocalFunNodes(SpecEdges(r.m), r.m.funs, order)

\* C21: a build over a form list that holds a Record form ends without a
\* panic and as the build over the same list with that form removed ends.
C21_RecordIgnored ==
    (status \in {"done", "panicked"} /\ ast # None) =>
        \A i \in 1..Len(ast[1]) :
          (ast[1][i].f = "Record" /\ ~HandleForms(ModuleBuilderNew, Without(ast[1], i)).panic)
            => EndsAsOn(Without(ast[1], i))

-----------------------------------------------------------------------------
(* What build touches besides its graph and bindings (SpecBuild).           *)

\* C22: no step of build is a file operation, and build never ends in a
\* failure that the declaration does not decide: it does not fail at the
\* writing of a file.
C22_BuildInMemory ==
    /\ [](status = "panicked" => ~(ctl # <<>> /\ Head(ctl).op = "write_dot"))
    /\ [][~WriteDot]_vars

-----------------------------------------------------------------------------
(* The result nodes of case, try and if expressions (SpecBuild).            *)

RECURSIVE SortedSeq(_)
SortedSeq(S) ==
    IF S = {} THEN <<>>
    ELSE LET least == CHOOSE x \in S : \A y \in S : x <= y
         IN  <<least>> \o SortedSeq(S \ {least})

\* the clause lists that return into a result node, one per case, try and if
\* expression, in the order in which parse_expr meets the expressions
RECURSIVE ExprResults(_)
RECURSIVE SeqResults(_)
RECURSIVE ClausesResults(_)
SeqResults(es) == Concat([i \in 1..Len(es) |-> ExprResults(es[i])])
ClausesResults(cs) == Concat([i \in 1..Len(cs) |-> SeqResults(cs[i].body)])
ExprResults(x) ==
    CASE x.e = "Match" -> ExprResults(x.right)
      [] x.e = "Case" -> <<x.clauses>> \o ExprResults(x.expr) \o ClausesResults(x.clauses)
      [] x.e = "Try" ->
           <<x.case_clauses \o x.catch_clauses>> \o SeqResults(x.body)
             \o ClausesResults(x.case_clauses) \o ClausesResults(x.catch_clauses)
             \o SeqResults(x.after)
      [] x.e = "If" -> <<x.clauses>> \o ClausesResults(x.clauses)
      [] x.e = "Record" ->
           Concat([i \in 1..Len(x.fields) |-> ExprResults(x.fields[i].value)])
      [] x.e = "Cons" -> ExprResults(x.head) \o ExprResults(x.tail)
      [] x.e = "Tuple" -> SeqResults(x.elements)
      [] x.e = "BinaryOp" -> ExprResults(x.left_operand) \o ExprResults(x.right_operand)
      [] x.e = "LocalCall" -> ExprResults(x.function) \o SeqResults(x.args)
      [] x.e = "RemoteCall" ->
           ExprResults(x.module) \o ExprResults(x.function) \o SeqResults(x.args)
      [] OTHER -> <<>>

ResultNodes == {n \in Nodes : IsResultNode(n)}

\* the node is what the last expression of the body evaluates to, as far as
\* the content of the node tells
IsValueOf(n, body) ==
    LET last == body[Len(body)]
    IN  /\ IsVal(n)
        /\ last.e = "Atom" => IsAtomNode(n, last.value)
        /\ last.e = "Nil" => Content(n) = ValWithType(NilType)
        /\ last.e \in {"Case", "Try", "If"} <=> IsResultNode(n)
        /\ last.e = "Var" => Content(n) = ValNew

\* the Return edges into `result` are those of `clauses`, in order
ReturnsOf(result, clauses) ==
    LET into == SortedSeq(EdgesInto(KReturn, result))
    IN  /\ Len(into) = Len(clauses)
        /\ \A j \in 1..Len(into) : IsValueOf(graph.edges[into[j]].producer, clauses[j].body)

C25_ResultState ==
    status = "done" =>
        LET results == SortedSeq(ResultNodes)
            exprs == ClausesResults(decl.clauses)
        IN  /\ Len(results) = Len(exprs)
            /\ \A i \in 1..Len(results) : ReturnsOf(results[i], exprs[i])
            /\ \A f \in FunNodes : ReturnsOf(Content(f).return_value, decl.clauses)

C25_ResultStep ==
    (Walking /\ Top.op = "expr" /\ Top.expr.e \in {"Case", "Try", "If"}) =>
        /\ graph'.nodes =
             (graph.next_node_id :> NodeNew(graph.next_node_id, ValNewVar)) @@ graph.nodes
        /\ graph'.edges = graph.edges

C25_CatchStep ==
    (Walking /\ Top.op = "try_catch" /\ status' = "running") =>
        /\ graph.next_node_id \notin Nodes
        /\ graph'.nodes[graph.next_node_id].content.producible_type = AnyType
        /\ graph'.nodes[graph.next_node_id].content.consumable_type = AnyType
        /\ \A i \in 1..Len(Top.try.catch_clauses) :
             ctl'[i].op = "clause" /\ ctl'[i].args = <<graph.next_node_id>>

\* C25: a case, try or if expression first creates its result node, with
\* producible None and consumable Any and no edge; when build has returned
\* there is one result node per such expression, and the Return edges into
\* it are one per case and catch clause, in order, each produced by the
\* value of that clause's body, none by an after-body; the value of the
\* expression is its result node; and the node matched against the
\* patterns of catch clauses has producible and consumable Any.
C25_ResultNodes == []C25_ResultState /\ [][C25_ResultStep /\ C25_CatchStep]_vars

\* build has returned the graph of h: a try with a case in its body, a case
\* clause, a catch clause holding an if, and a case in its after-body
C25_Witness ==
    /\ status = "done" /\ decl = DeclH
    /\ Cardinality(ResultNodes) = 4
    /\ \E n \in ResultNodes : Cardinality(EdgesInto(KReturn, n)) = 2

-----------------------------------------------------------------------------
(* The operands the builder stores in call and Conj nodes (SpecBuild).      *)

CallNodes == {n \in Nodes : Content(n).tag \in {"LocalCall", "RemoteCall"}}
IsValNode(id) == id \in Nodes /\ IsVal(id)

\* C26: in a graph that build has returned, the callee, the module and every
\* argument of a LocalCall or RemoteCall node, every child of a Conj node
\* and the producer of every edge are Val nodes, and an edge whose consumer
\* is not a Val node is a Conj edge into a Conj node.
C26_OperandsAreVals ==
    status = "done" =>
        /\ \A n \in CallNodes :
             /\ IsValNode(Content(n).fun)
             /\ Content(n).tag = "RemoteCall" => IsValNode(Content(n).module)
             /\ \A i \in 1..Len(Content(n).args) : IsValNode(Content(n).args[i])
        /\ \A n \in Nodes :
             Content(n).tag = "Conj" =>
               \A i \in 1..Len(Content(n).nodes) : IsValNode(Content(n).nodes[i])
        /\ \A e \in Edges :
             /\ IsValNode(graph.edges[e].producer)
             /\ ~IsValNode(graph.edges[e].consumer) =>
                  /\ graph.edges[e].kind = KConj
                  /\ graph.edges[e].consumer \in Nodes
                  /\ Content(graph.edges[e].consumer).tag = "Conj"

-----------------------------------------------------------------------------
(* The lifetime of a binding (SpecBuild).                                   *)

AtClause == Walking /\ Top.op = "clause" /\ Len(Top.args) = Len(Top.clause.patterns)
AtScopeOut == Walking /\ Top.op = "scope_out"

\* a clause opens an empty frame and closes it at its end, and no step
\* changes a frame below the top one
C27_FrameStep ==
    /\ AtClause => bindings' = Append(bindings, EmptyMap)
    /\ AtScopeOut =>
         /\ Len(bindings) > 0
         /\ bindings' = SubSeq(bindings, 1, Len(bindings) - 1)
    /\ ~AtClause /\ ~AtScopeOut => Len(bindings') = Len(bindings)
    /\ \A i \in 1..Len(bindings) :
         (i < Len(bindings) /\ i <= Len(bindings')) => bindings'[i] = bindings[i]

\* a name of a pattern resolves to the node of an enclosing frame without a
\* new node, and to a node the graph did not have otherwise; a reference to
\* a name that no frame holds fails
C27_NameStep ==
    /\ (AtPatternVar /\ BoundIn(bindings, VarName) # {}) =>
         /\ graph' = graph /\ bindings' = bindings
         /\ vals' = <<Innermost(bindings, VarName)>> \o vals
    /\ (AtPatternVar /\ BoundIn(bindings, VarName) = {} /\ status' = "running") =>
         /\ Head(vals') \notin Nodes
         /\ \A i \in 1..Len(bindings) : \A m \in DOMAIN bindings[i] : bindings[i][m] # Head(vals')
    /\ ((AtExprVar \/ AtGuardVar) /\ BoundIn(bindings, VarName) = {}) =>
         status' = "panicked" /\ graph' = graph

\* the build of s: the X of the first case clause is the node of the
\* parameter X, the Z of the second and the Z of the third are two further
\* nodes, and the Z after the case is unbound: the build fails there with X
\* alone bound
C27_ScopeState ==
    (decl = DeclS /\ status \in {"done", "panicked"}) =>
        /\ status = "panicked" /\ ctl # <<>> /\ Head(ctl) = IExpr(EVar("Z"))
        /\ Len(bindings) = 1 /\ DOMAIN bindings[1] = {"X"}
        /\ PatternNodes(1, 1, 1) = {bindings[1]["X"]}
        /\ PatternNodes(2, 1, 1) = {bindings[1]["X"]}
        /\ \E z1 \in PatternNodes(2, 2, 1), z2 \in PatternNodes(2, 3, 1) :
             /\ PatternNodes(2, 2, 1) = {z1} /\ PatternNodes(2, 3, 1) = {z2}
             /\ z1 # z2 /\ z1 # bindings[1]["X"] /\ z2 # bindings[1]["X"]

\* C27: a name introduced in a clause is bound until the clause ends: the
\* same name in a sibling clause is another node and a reference after the
\* enclosing expression fails as unbound; a name that an enclosing scope
\* binds resolves, in a nested clause's pattern, to the enclosing node
\* without a new node, and the enclosing frames are the same after the
\* nested clause as before it.
C27_ClauseScopes == []C27_ScopeState /\ [][C27_FrameStep /\ C27_NameStep]_vars

\* the build of s has failed at the reference to Z after the case
C27_Witness ==
    /\ decl = DeclS /\ status = "panicked"
    /\ PatternNodes(2, 3, 1) # {}

-----------------------------------------------------------------------------
(* The references between the entries of the built-in dictionary.           *)

\* the (name, number of arguments) of the local type references in a type
RECURSIVE LocalRefs(_)
LocalRefs(ty) ==
    LET Each(tys) == UNION {LocalRefs(tys[i]) : i \in 1..Len(tys)}
    IN  CASE ty.t = "Local" -> {<<ty.name, Len(ty.args)>>} \cup Each(ty.args)
          [] ty.t = "Union" -> Each(ty.types)
          [] ty.t = "Tuple" -> IF ty.elements = None THEN {} ELSE Each(ty.elements[1])
          [] OTHER -> {}

EntryRefs(entry) == IF entry.class.class = "Proto" THEN LocalRefs(entry.class.proto) ELSE {}

\* C28: the keys of the seeded pairs are pairwise different, so that the
\* dictionary of a constructed environment has one entry per pair, and
\* every local reference name(args) in the body of an entry names the key
\* (name, number of args) of an entry of the dictionary.
C28_DictionaryClosed ==
    /\ \A i, j \in 1..Len(built_in_types) :
         i # j => built_in_types[i].key # built_in_types[j].key
    /\ Cardinality(BuiltinKeys(tenv.types)) = Len(built_in_types)
    /\ \A i \in 1..Len(built_in_types) : \A ref \in EntryRefs(built_in_types[i]) :
         TypeKeyBuiltin(ref[1], ref[2]) \in DOMAIN tenv.types

-----------------------------------------------------------------------------
(* The text of an Integer type (SpecTy).                                    *)

IntegerTypes ==
    {[t |-> "Integer", min |-> lo, max |-> hi] :
        lo \in {None} \cup {Some(v) : v \in I64Samples},
        hi \in {None} \cup {Some(v) : v \in I64Samples}}

\* C29: an Integer type formats as integer() exactly when both bounds are
\* absent, as the decimal of N when min = max = N and as lo..hi when both
\* bounds are present and differ, 1..10 as "1..10"; no Integer type with
\* another (min, max) pair formats to the same text.
C29_IntegerDisplay ==
    /\ IntegerDisplay(IntegerMax(IntegerMin(integer, Small(1)), Small(10))) = "1..10"
    /\ call.op = "fmt" =>
         LET ty == call.self
             text == call.out.text
         IN  /\ text = "integer()" <=> (ty.min = None /\ ty.max = None)
             /\ (ty.min # None /\ ty.min = ty.max) => text = DisplayI64(ty.min[1])
             /\ (ty.min # None /\ ty.max # None /\ ty.min # ty.max) =>
                  text = DisplayI64(ty.min[1]) \o ".." \o DisplayI64(ty.max[1])
             /\ \A other \in IntegerTypes : other # ty => IntegerDisplay(other) # text

-----------------------------------------------------------------------------
(* beam::external: the arithmetic of the readers.  A u32 is written        *)
(* [hi, lo] and stands for hi * 2^16 + lo.  An operation yields the        *)
(* wrapped value and whether it overflowed: a build with overflow checks   *)
(* panics there, a build without them goes on with the wrapped value.      *)

U32(hi, lo) == [hi |-> hi, lo |-> lo]
U32Of(n) == U32(n \div (256 * 256), n % (256 * 256))
U32FromBytes(b) == U32(b[1] * 256 + b[2], b[3] * 256 + b[4])
U32Add(a, b) ==
    LET lo == a.lo + b.lo
        hi == a.hi + b.hi + lo \div (256 * 256)
    IN  [v |-> U32(hi % (256 * 256), lo % (256 * 256)), overflow |-> hi >= 256 * 256]
\* a subtraction that wraps the other way, a variant the arithmetic would reject
U32SubSaturating(a, b) ==
    IF a.hi < b.hi \/ (a.hi = b.hi /\ a.lo < b.lo) THEN [v |-> U32(0, 0), overflow |-> FALSE]
    ELSE [v |-> U32Of((a.hi - b.hi) * 256 * 256 + a.lo - b.lo), overflow |-> FALSE]
U32Sub(a, b) ==
    LET lo == a.lo - b.lo
        hi == a.hi - b.hi - (IF lo < 0 THEN 1 ELSE 0)
    IN  [v |-> U32((hi + 256 * 256) % (256 * 256), (lo + 256 * 256) % (256 * 256)),
         overflow |-> hi < 0]
U32Lt(a, b) == a.hi < b.hi \/ (a.hi = b.hi /\ a.lo < b.lo)
\* `as usize`, for a count of bytes or elements: no input of the model is
\* 2^16 bytes long, so every count from 2^16 on runs into the end of input alike
AsCount(x) == IF x.hi > 0 THEN 256 * 256 ELSE x.lo

Least(a, b) == IF a < b THEN a ELSE b

Ok(fields) == [kind |-> "ok"] @@ fields
Err(kind, message) == [kind |-> "err", error |-> [kind |-> kind, message |-> message]]
Abort == [kind |-> "panic"]
UnexpectedEof == Err("UnexpectedEof", <<"failed to fill whole buffer">>)
InvalidData(message) == Err("InvalidData", message)

-----------------------------------------------------------------------------
(* std::io::BufReader over the input, as form::Decoder uses it.  `off` is  *)
(* how far the inner reader has been read and `buffered` how much of that  *)
(* is still in the buffer.  The buffer of the standard library holds 8192  *)
(* bytes; the model's holds BufCap.                                        *)

BufCap == 8

BufReaderNew(input) == [input |-> input, off |-> 0, buffered |-> 0]
ReaderPos(r) == r.off - r.buffered

\* read_exact: reads of the buffer's size or more bypass an empty buffer
RECURSIVE Fill(_, _)
Fill(r, n) ==
    IF n = 0 THEN [reader |-> r, ok |-> TRUE]
    ELSE IF r.buffered > 0
    THEN Fill([r EXCEPT !.buffered = @ - Least(r.buffered, n)], n - Least(r.buffered, n))
    ELSE IF r.off = Len(r.input) THEN [reader |-> r, ok |-> FALSE]
    ELSE IF n >= BufCap
    THEN Fill([r EXCEPT !.off = @ + Least(n, Len(r.input) - r.off)],
              n - Least(n, Len(r.input) - r.off))
    ELSE Fill([r EXCEPT !.off = @ + Least(BufCap, Len(r.input) - r.off),
                        !.buffered = Least(BufCap, Len(r.input) - r.off)], n)

ReadExact(r, n) ==
    LET f == Fill(r, n)
    IN  [reader |-> f.reader, ok |-> f.ok,
         bytes |-> IF f.ok THEN SubSeq(r.input, ReaderPos(r) + 1, ReaderPos(r) + n) ELSE <<>>]

\* BufReader::consume: the position moves within the buffer only
Consume(r, amt) == [r EXCEPT !.buffered = @ - Least(amt, @)]

-----------------------------------------------------------------------------
(* beam::external::form: the header and the chunks of the container.       *)

Header(magic_number, form_type) == [magic_number |-> magic_number, form_type |-> form_type]
Chunk(id, data) == [id |-> id, data |-> data]
ChunkExternalSize(chunk) == U32Add(U32Of(4 + 4), U32Of(Len(chunk.data)))

decode_header_and_form_size(r, checks) ==
    LET magic == ReadExact(r, 4)
        size == ReadExact(magic.reader, 4)
        form_type == ReadExact(size.reader, 4)
        payload == U32Sub(U32FromBytes(size.bytes), U32Of(4))
    IN  IF ~magic.ok \/ ~size.ok \/ ~form_type.ok THEN UnexpectedEof
        ELSE IF payload.overflow /\ checks THEN Abort
        ELSE Ok([reader |-> form_type.reader, header |-> Header(magic.bytes, form_type.bytes),
                 size |-> payload.v, wrapped |-> payload.overflow])

decode_chunk(r) ==
    LET id == ReadExact(r, 4)
        size == ReadExact(id.reader, 4)
        data == ReadExact(size.reader, AsCount(U32FromBytes(size.bytes)))
    IN  IF ~id.ok \/ ~size.ok \/ ~data.ok THEN UnexpectedEof
        ELSE Ok([reader |-> data.reader, chunk |-> Chunk(id.bytes, data.bytes)])

\* one turn of the loop of decode_chunks
decode_chunks_turn(r, read_size, checks) ==
    LET c == decode_chunk(r)
        sized == U32Add(read_size, ChunkExternalSize(c.chunk).v)
        padding_size == (4 - (sized.v.lo % 4)) % 4
        padded == U32Add(sized.v, U32Of(padding_size))
    IN  IF c.kind # "ok" THEN c
        ELSE IF (ChunkExternalSize(c.chunk).overflow \/ sized.overflow \/ padded.overflow)
                /\ checks THEN Abort
        ELSE Ok([reader |-> Consume(c.reader, padding_size), chunk |-> c.chunk,
                 read_size |-> padded.v,
                 wrapped |-> ChunkExternalSize(c.chunk).overflow \/ sized.overflow
                               \/ padded.overflow])

-----------------------------------------------------------------------------
(* std::io::Cursor over the data of one chunk, with the byteorder reads.   *)

Cursor(data) == [data |-> data, pos |-> 0]
CurRead(c, n) ==
    IF c.pos + n > Len(c.data) THEN [cur |-> c, ok |-> FALSE, bytes |-> <<>>]
    ELSE [cur |-> [c EXCEPT !.pos = @ + n], ok |-> TRUE,
          bytes |-> SubSeq(c.data, c.pos + 1, c.pos + n)]

\* std::str::from_utf8 on the byte strings the inputs hold: they hold no
\* multi-byte sequence, so a string is valid when every byte is ASCII
Utf8(bytes) == \A i \in 1..Len(bytes) : bytes[i] < 128

-----------------------------------------------------------------------------
(* beam::external::term: the external term format held by the Abst chunk.  *)

TAG_COMPRESSED == 80
TAG_SMALL_INTEGER == 97
TAG_INTEGER == 98
TAG_ATOM == 100
TAG_SMALL_TUPLE == 104
TAG_LARGE_TUPLE == 105
TAG_NIL == 106
TAG_STRING == 107
TAG_LIST == 108
TAG_SMALL_ATOM == 115
TAG_ATOM_UTF8 == 118
TAG_SMALL_ATOM_UTF8 == 119

TermNil == [t |-> "nil"]
TermInteger(v) == [t |-> "integer", ivalue |-> v]
TermAtom(name) == [t |-> "atom", name |-> name]
TermTuple(elements) == [t |-> "tuple", elements |-> elements]
TermList(head, tail) == [t |-> "list", head |-> head, tail |-> tail]

\* read_i32: the four bytes as a two's complement number
I32FromBytes(b) ==
    LET u == U32FromBytes(b)
    IN  IF u.hi >= 128 * 256 THEN (u.hi - 256 * 256) * 256 * 256 + u.lo
        ELSE u.hi * 256 * 256 + u.lo

\* the fold that conses the elements, last one first, onto the tail
RECURSIVE ConsAll(_, _)
ConsAll(elements, tail) ==
    IF elements = <<>> THEN tail
    ELSE TermList(Head(elements), ConsAll(Tail(elements), tail))

decode_atom_of(c, width) ==
    LET length == CurRead(c, width)
        n == IF width = 1 THEN length.bytes[1] ELSE length.bytes[1] * 256 + length.bytes[2]
        name == CurRead(length.cur, n)
    IN  IF ~length.ok \/ ~name.ok THEN UnexpectedEof
        ELSE IF ~Utf8(name.bytes) THEN InvalidData(<<"invalid utf-8 sequence">>)
        ELSE Ok([cur |-> name.cur, term |-> TermAtom(name.bytes)])

decode_string(c) ==
    LET length == CurRead(c, 2)
        chars == CurRead(length.cur, length.bytes[1] * 256 + length.bytes[2])
    IN  IF ~length.ok \/ ~chars.ok THEN UnexpectedEof
        ELSE Ok([cur |-> chars.cur,
                 term |-> ConsAll([i \in 1..Len(chars.bytes) |-> TermInteger(chars.bytes[i])],
                                  TermNil)])

RECURSIVE decode(_)
RECURSIVE decode_elements(_, _, _)

\* `for _ in 0..n { elements.push(try!(self.decode())) }`
decode_elements(c, n, elements) ==
    IF n = 0 THEN Ok([cur |-> c, elements |-> elements])
    ELSE LET e == decode(c)
         IN  IF e.kind # "ok" THEN e
             ELSE decode_elements(e.cur, n - 1, Append(elements, e.term))

decode_tuple_of(c, width) ==
    LET arity == CurRead(c, width)
        n == IF width = 1 THEN arity.bytes[1] ELSE AsCount(U32FromBytes(arity.bytes))
        es == decode_elements(arity.cur, n, <<>>)
    IN  IF ~arity.ok THEN UnexpectedEof
        ELSE IF es.kind # "ok" THEN es
        ELSE Ok([cur |-> es.cur, term |-> TermTuple(es.elements)])

decode_list(c) ==
    LET length == CurRead(c, 4)
        es == decode_elements(length.cur, AsCount(U32FromBytes(length.bytes)), <<>>)
        tail == decode(es.cur)
    IN  IF ~length.ok THEN UnexpectedEof
        ELSE IF es.kind # "ok" THEN es
        ELSE IF tail.kind # "ok" THEN tail
        ELSE Ok([cur |-> tail.cur, term |-> ConsAll(es.elements, tail.term)])

\* no input of the model holds a zlib stream: the inflater rejects what follows
decode_compressed_term(c) ==
    IF ~CurRead(c, 4).ok THEN UnexpectedEof
    ELSE Err("InvalidInput", <<"corrupt deflate stream">>)

decode(c) ==
    LET tag == CurRead(c, 1)
        t == tag.bytes[1]
        x8 == CurRead(tag.cur, 1)
        x32 == CurRead(tag.cur, 4)
    IN  IF ~tag.ok THEN UnexpectedEof
        ELSE IF t = TAG_COMPRESSED THEN decode_compressed_term(tag.cur)
        ELSE IF t = TAG_SMALL_INTEGER
        THEN IF ~x8.ok THEN UnexpectedEof
             ELSE Ok([cur |-> x8.cur, term |-> TermInteger(x8.bytes[1])])
        ELSE IF t = TAG_INTEGER
        THEN IF ~x32.ok THEN UnexpectedEof
             ELSE Ok([cur |-> x32.cur, term |-> TermInteger(I32FromBytes(x32.bytes))])
        ELSE IF t = TAG_ATOM THEN decode_atom_of(tag.cur, 2)
        ELSE IF t = TAG_SMALL_TUPLE THEN decode_tuple_of(tag.cur, 1)
        ELSE IF t = TAG_LARGE_TUPLE THEN decode_tuple_of(tag.cur, 4)
        ELSE IF t = TAG_NIL THEN Ok([cur |-> tag.cur, term |-> TermNil])
        ELSE IF t = TAG_STRING THEN decode_string(tag.cur)
        ELSE IF t = TAG_LIST THEN decode_list(tag.cur)
        ELSE IF t = TAG_SMALL_ATOM THEN decode_atom_of(tag.cur, 1)
        ELSE IF t = TAG_ATOM_UTF8 THEN decode_atom_of(tag.cur, 2)
        ELSE IF t = TAG_SMALL_ATOM_UTF8 THEN decode_atom_of(tag.cur, 1)
        ELSE Abort

term_from_reader(c) ==
    LET version == CurRead(c, 1)
    IN  IF ~version.ok THEN UnexpectedEof
        ELSE IF version.bytes[1] # 131
        THEN InvalidData(<<"Unknown version: {}", version.bytes>>)
        ELSE decode(version.cur)

-----------------------------------------------------------------------------
(* beam::external::module: the chunks the Module is built from.            *)

IdAtom == <<65, 116, 111, 109>>
IdImpT == <<73, 109, 112, 84>>
IdExpT == <<69, 120, 112, 84>>
IdAbst == <<65, 98, 115, 116>>
MagicFOR1 == <<70, 79, 82, 49>>
TypeBEAM == <<66, 69, 65, 77>>

ModuleDefault ==
    [atoms |-> None, imports |-> None, exports |-> None, abstract_form |-> None,
     unknown_chunks |-> <<>>]

validate_form_header(header) ==
    IF MagicFOR1 # header.magic_number
    THEN InvalidData(<<"Unexpected magic number: {:?}", header.magic_number>>)
    ELSE IF TypeBEAM # header.form_type
    THEN InvalidData(<<"Unexpected form type: {:?}", header.form_type>>)
    ELSE Ok([header |-> header])

\* the message of the too large id is formatted with atoms.len() - 1
get_atom(module, atom_id, checks) ==
    IF module.atoms # None
    THEN LET atoms == module.atoms[1]
         IN  IF AsCount(atom_id) >= Len(atoms)
             THEN IF Len(atoms) = 0 /\ checks THEN Abort
                  ELSE InvalidData(<<"Too large atom id: {} (max={})">>)
             ELSE Ok([atom |-> atoms[AsCount(atom_id) + 1]])
    ELSE InvalidData(<<"Missing 'Atom' preceding chunk">>)

RECURSIVE atoms_loop(_, _, _)
atoms_loop(c, count, atoms) ==
    IF count = 0 THEN Ok([atoms |-> atoms])
    ELSE LET length == CurRead(c, 1)
             value == CurRead(length.cur, length.bytes[1])
         IN  IF ~length.ok \/ ~value.ok THEN UnexpectedEof
             ELSE IF ~Utf8(value.bytes) THEN InvalidData(<<"invalid utf-8 sequence">>)
             ELSE atoms_loop(value.cur, count - 1, Append(atoms, value.bytes))

load_atoms(module, data) ==
    LET count == CurRead(Cursor(data), 4)
        r == atoms_loop(count.cur, AsCount(U32FromBytes(count.bytes)), <<>>)
    IN  IF ~count.ok THEN UnexpectedEof
        ELSE IF r.kind # "ok" THEN r
        ELSE Ok([module |-> [module EXCEPT !.atoms = Some(r.atoms)]])

RECURSIVE imports_loop(_, _, _, _, _)
imports_loop(module, c, count, imports, checks) ==
    IF count = 0 THEN Ok([imports |-> imports])
    ELSE LET m == CurRead(c, 4)
             module_id == U32Sub(U32FromBytes(m.bytes), U32Of(1))
             f == CurRead(m.cur, 4)
             function_id == U32Sub(U32FromBytes(f.bytes), U32Of(1))
             arity == CurRead(f.cur, 4)
             ma == get_atom(module, module_id.v, checks)
             fa == get_atom(module, function_id.v, checks)
         IN  IF ~m.ok THEN UnexpectedEof
             ELSE IF module_id.overflow /\ checks THEN Abort
             ELSE IF ~f.ok THEN UnexpectedEof
             ELSE IF function_id.overflow /\ checks THEN Abort
             ELSE IF ~arity.ok THEN UnexpectedEof
             ELSE IF ma.kind # "ok" THEN ma
             ELSE IF fa.kind # "ok" THEN fa
             ELSE imports_loop(module, arity.cur, count - 1,
                               Append(imports, [module |-> ma.atom, function |-> fa.atom,
                                                arity |-> U32FromBytes(arity.bytes)]),
                               checks)

load_imports(module, data, checks) ==
    LET count == CurRead(Cursor(data), 4)
        r == imports_loop(module, count.cur, AsCount(U32FromBytes(count.bytes)), <<>>, checks)
    IN  IF ~count.ok THEN UnexpectedEof
        ELSE IF r.kind # "ok" THEN r
        ELSE Ok([module |-> [module EXCEPT !.imports = Some(r.imports)]])

RECURSIVE exports_loop(_, _, _, _, _)
exports_loop(module, c, count, exports, checks) ==
    IF count = 0 THEN Ok([exports |-> exports])
    ELSE LET f == CurRead(c, 4)
             function_id == U32Sub(U32FromBytes(f.bytes), U32Of(1))
             arity == CurRead(f.cur, 4)
             label == CurRead(arity.cur, 4)
             fa == get_atom(module, function_id.v, checks)
         IN  IF ~f.ok THEN UnexpectedEof
             ELSE IF function_id.overflow /\ checks THEN Abort
             ELSE IF ~arity.ok \/ ~label.ok THEN UnexpectedEof
             ELSE IF fa.kind # "ok" THEN fa
             ELSE exports_loop(module, label.cur, count - 1,
                               Append(exports, [function |-> fa.atom,
                                                arity |-> U32FromBytes(arity.bytes),
                                                label |-> U32FromBytes(label.bytes)]),
                               checks)

load_exports(module, data, checks) ==
    LET count == CurRead(Cursor(data), 4)
        r == exports_loop(module, count.cur, AsCount(U32FromBytes(count.bytes)), <<>>, checks)
    IN  IF ~count.ok THEN UnexpectedEof
        ELSE IF r.kind # "ok" THEN r
        ELSE Ok([module |-> [module EXCEPT !.exports = Some(r.exports)]])

load_abstract_form(module, data) ==
    LET r == term_from_reader(Cursor(data))
    IN  IF r.kind # "ok" THEN r
        ELSE Ok([module |-> [module EXCEPT !.abstract_form = Some(r.term)]])

\* one turn of `for chunk in form.chunks` in Module::from_reader
load_chunk(module, knowns, chunk, checks) ==
    IF chunk.id \in knowns THEN InvalidData(<<"Duplicated '{}' chunk", chunk.id>>)
    ELSE LET r == IF chunk.id = IdAtom THEN load_atoms(module, chunk.data)
                  ELSE IF chunk.id = IdImpT THEN load_imports(module, chunk.data, checks)
                  ELSE IF chunk.id = IdExpT THEN load_exports(module, chunk.data, checks)
                  ELSE IF chunk.id = IdAbst THEN load_abstract_form(module, chunk.data)
                  ELSE Ok([module |-> [module EXCEPT !.unknown_chunks = Append(@, chunk)]])
         IN  IF r.kind # "ok" THEN r
             ELSE Ok([module |-> r.module, knowns |-> knowns \cup {chunk.id}])

-----------------------------------------------------------------------------
(* The files the reader is run on, written with the layout of the format:  *)
(* magic, size of what follows the size, form type, and the chunks, each   *)
(* an id, the size of the data, the data and the padding to four bytes.    *)

U32Bytes(n) == <<0, 0, n \div 256, n % 256>>
Zeros(n) == [i \in 1..n |-> 0]
ChunkBytes(id, data) == id \o U32Bytes(Len(data)) \o data \o Zeros((4 - (Len(data) % 4)) % 4)
FileBytes(magic, declared, form_type, body) == magic \o U32Bytes(declared) \o form_type \o body
BeamFile(body) == FileBytes(MagicFOR1, Len(body) + 4, TypeBEAM, body)

IdCode == <<67, 111, 100, 101>>
IdStrT == <<83, 116, 114, 84>>
MagicFOR2 == <<70, 79, 82, 50>>
TypeBEAN == <<66, 69, 65, 78>>

AtomsAB == ChunkBytes(IdAtom, U32Bytes(2) \o <<1, 97>> \o <<1, 98>>)
AtomsIo == ChunkBytes(IdAtom, U32Bytes(1) \o <<2, 105, 111>>)
AtomsNone == ChunkBytes(IdAtom, U32Bytes(0))
AtomsBad == ChunkBytes(IdAtom, U32Bytes(1) \o <<1, 255>>)
Imports(m, f) == ChunkBytes(IdImpT, U32Bytes(1) \o U32Bytes(m) \o U32Bytes(f) \o U32Bytes(2))
Exports(f) == ChunkBytes(IdExpT, U32Bytes(1) \o U32Bytes(f) \o U32Bytes(0) \o U32Bytes(2))
Abstract(term) == ChunkBytes(IdAbst, <<131>> \o term)
Code == ChunkBytes(IdCode, <<1, 2, 3, 4>>)
CodeLong == ChunkBytes(IdCode, <<1, 2, 3, 4, 5, 6, 7, 8, 9, 10, 11, 12, 13>>)
StrT == ChunkBytes(IdStrT, <<>>)
TupleOfNil == <<TAG_SMALL_TUPLE, 1, TAG_NIL>>
ListOfSeven == <<TAG_LIST, 0, 0, 0, 1, TAG_SMALL_INTEGER, 7, TAG_NIL>>
TupleOfAtomAndString ==
    <<TAG_LARGE_TUPLE, 0, 0, 0, 3, TAG_ATOM, 0, 1, 97, TAG_STRING, 0, 2, 104, 105,
      TAG_INTEGER, 255, 255, 255, 255>>
UnknownTag == <<99>>

GoodBody == AtomsAB \o Imports(1, 2) \o Exports(2) \o Abstract(TupleOfNil) \o Code \o StrT

BeamFiles ==
    { BeamFile(GoodBody),
      BeamFile(StrT \o Code \o AtomsAB),
      BeamFile(AtomsAB \o Abstract(TupleOfAtomAndString)),
      BeamFile(AtomsAB \o Abstract(ListOfSeven) \o Code),
      BeamFile(<<>>),
      \* the header
      FileBytes(MagicFOR2, Len(GoodBody) + 4, TypeBEAM, GoodBody),
      FileBytes(MagicFOR1, Len(GoodBody) + 4, TypeBEAN, GoodBody),
      FileBytes(MagicFOR2, Len(Code) + 4, TypeBEAM, SubSeq(Code, 1, 6)),
      FileBytes(MagicFOR2, 0, TypeBEAM, <<>>),
      FileBytes(MagicFOR1, 0, TypeBEAM, <<>>),
      FileBytes(MagicFOR1, 1, TypeBEAM, Code),
      FileBytes(MagicFOR1, 2, TypeBEAM, <<>>),
      FileBytes(MagicFOR1, 3, TypeBEAM, AtomsAB),
      FileBytes(MagicFOR1, 4, TypeBEAM, Code),
      FileBytes(MagicFOR1, Len(Code) + 4, TypeBEAM, Code \o StrT),
      FileBytes(MagicFOR1, 9, TypeBEAM, Code \o StrT),
      FileBytes(MagicFOR1, Len(Code) + 12, TypeBEAM, Code),
      SubSeq(BeamFile(GoodBody), 1, 10),
      <<>>,
      \* the chunk ids
      BeamFile(AtomsAB \o AtomsAB),
      BeamFile(AtomsAB \o Code \o AtomsNone),
      BeamFile(Code \o StrT \o Code),
      BeamFile(Abstract(UnknownTag) \o AtomsAB \o AtomsAB),
      \* the atom table and its indices
      BeamFile(Imports(1, 1) \o AtomsAB),
      BeamFile(Exports(1)),
      BeamFile(AtomsAB \o Imports(0, 1)),
      BeamFile(AtomsAB \o Imports(1, 0)),
      BeamFile(AtomsAB \o Imports(3, 1)),
      BeamFile(AtomsAB \o Exports(0)),
      BeamFile(AtomsAB \o Exports(3)),
      BeamFile(AtomsNone \o Imports(1, 1)),
      BeamFile(AtomsNone \o Exports(1)),
      BeamFile(AtomsNone \o Exports(0)),
      BeamFile(AtomsBad),
      \* the abstract form
      BeamFile(Abstract(UnknownTag)),
      BeamFile(Abstract(<<TAG_SMALL_TUPLE, 1, 99>>)),
      BeamFile(Abstract(<<TAG_SMALL_TUPLE, 2, TAG_NIL>>)),
      BeamFile(Abstract(<<TAG_COMPRESSED, 0, 0, 0, 1, 0>>)),
      BeamFile(ChunkBytes(IdAbst, <<130, TAG_NIL>>)),
      \* data that is not a multiple of four bytes long
      BeamFile(AtomsIo \o Code),
      BeamFile(CodeLong \o StrT),
      BeamFile(CodeLong \o AtomsAB \o AtomsAB),
      BeamFile(IdCode \o <<1, 0, 0, 0>> \o <<1, 2, 3, 4>>) }

-----------------------------------------------------------------------------
(* Module::from_reader, step by step: the header, the chunks one turn of   *)
(* the loop at a time, the header validated, the chunks loaded one turn    *)
(* at a time, and the return.                                              *)

BeamEnv == UNCHANGED <<graph, bindings, ctl, vals, decl, hist, fs_ok, forms, mb,
                       returned, ast, env, tenv, call>>

BeamNew(input, checks) ==
    [phase |-> "start", input |-> input, checks |-> checks,
     reader |-> BufReaderNew(input), header |-> Header(Zeros(4), Zeros(4)),
     total_size |-> U32Of(0), read_size |-> U32Of(0), wrapped |-> FALSE,
     chunks |-> <<>>, rest |-> <<>>, knowns |-> {}, module |-> ModuleDefault,
     result |-> [kind |-> "none"]]

Running(phase) == status = "running" /\ beam # <<>> /\ beam.phase = phase

Finish(r) ==
    IF r.kind = "panic" THEN status' = "panicked" /\ UNCHANGED beam
    ELSE beam' = [beam EXCEPT !.phase = "returned", !.result = r] /\ UNCHANGED status

DecodeHeaderAndFormSize ==
    /\ Running("start")
    /\ LET r == decode_header_and_form_size(beam.reader, beam.checks)
       IN  IF r.kind # "ok" THEN Finish(r)
           ELSE /\ beam' = [beam EXCEPT !.phase = "decoding", !.reader = r.reader,
                                        !.header = r.header, !.total_size = r.size,
                                        !.wrapped = r.wrapped]
                /\ UNCHANGED status
    /\ BeamEnv

DecodeChunks ==
    /\ Running("decoding")
    /\ U32Lt(beam.read_size, beam.total_size)
    /\ LET r == decode_chunks_turn(beam.reader, beam.read_size, beam.checks)
       IN  IF r.kind # "ok" THEN Finish(r)
           ELSE /\ beam' = [beam EXCEPT !.reader = r.reader, !.read_size = r.read_size,
                                        !.chunks = Append(@, r.chunk),
                                        !.wrapped = @ \/ r.wrapped]
                /\ UNCHANGED status
    /\ BeamEnv

ValidateFormHeader ==
    /\ Running("decoding")
    /\ ~U32Lt(beam.read_size, beam.total_size)
    /\ LET r == validate_form_header(beam.header)
       IN  IF r.kind # "ok" THEN Finish(r)
           ELSE beam' = [beam EXCEPT !.phase = "loading", !.rest = beam.chunks]
                /\ UNCHANGED status
    /\ BeamEnv

LoadChunk ==
    /\ Running("loading")
    /\ beam.rest # <<>>
    /\ LET r == load_chunk(beam.module, beam.knowns, Head(beam.rest), beam.checks)
       IN  IF r.kind # "ok" THEN Finish(r)
           ELSE /\ beam' = [beam EXCEPT !.module = r.module, !.knowns = r.knowns,
                                        !.rest = Tail(@)]
                /\ UNCHANGED status
    /\ BeamEnv

ReturnModule ==
    /\ Running("loading")
    /\ beam.rest = <<>>
    /\ beam' = [beam EXCEPT !.phase = "returned", !.result = Ok([module |-> beam.module])]
    /\ UNCHANGED status
    /\ BeamEnv

InitBeam ==
    /\ graph = GraphNew
    /\ status = "running"
    /\ bindings = <<>> /\ ctl = <<>> /\ vals = <<>> /\ hist = <<>> /\ decl = <<>>
    /\ fs_ok = TRUE
    /\ forms = <<>> /\ mb = <<>> /\ returned = "none" /\ ast = <<>>
    /\ env = <<>> /\ tenv = <<>> /\ call = <<>>
    /\ \E input \in BeamFiles, checks \in BOOLEAN : beam = BeamNew(input, checks)

NextBeam ==
    \/ DecodeHeaderAndFormSize
    \/ DecodeChunks
    \/ ValidateFormHeader
    \/ LoadChunk
    \/ ReturnModule

SpecBeam == InitBeam /\ [][NextBeam]_vars

-----------------------------------------------------------------------------
(* The layout of a file read off its bytes: the chunks from offset `off`   *)
(* on, each with its padding, as long as whole chunks follow.              *)

RECURSIVE ChunksAt(_, _)
ChunksAt(input, off) ==
    IF off + 8 > Len(input) \/ input[off + 5] # 0 \/ input[off + 6] # 0 THEN <<>>
    ELSE LET size == input[off + 7] * 256 + input[off + 8]
             end == off + 8 + size + ((4 - (size % 4)) % 4)
         IN  IF end > Len(input) THEN <<>>
             ELSE <<Chunk(SubSeq(input, off + 1, off + 4), SubSeq(input, off + 9, off + 8 + size))>>
                  \o ChunksAt(input, end)

RECURSIVE PaddedSize(_)
PaddedSize(chunks) ==
    IF chunks = <<>> THEN 0
    ELSE 8 + Len(Head(chunks).data) + ((4 - (Len(Head(chunks).data) % 4)) % 4)
         + PaddedSize(Tail(chunks))

\* a whole container: header, a declared size that is the size of what
\* follows it, and chunks up to the end of the file
WholeFile(input) ==
    /\ Len(input) >= 12
    /\ input[5] = 0 /\ input[6] = 0 /\ input[7] * 256 + input[8] = Len(input) - 8
    /\ PaddedSize(ChunksAt(input, 12)) = Len(input) - 12

Ended == status = "panicked" \/ beam.phase = "returned"
FormatError == status = "running" /\ beam.result.kind = "err"
                 /\ beam.result.error.kind = "InvalidData"
IsKnownId(id) == id \in {IdAtom, IdImpT, IdExpT, IdAbst}
UnknownOnly(chunk) == ~IsKnownId(chunk.id)

\* C23: reading a whole container whose magic is not FOR1 or whose form type
\* is not BEAM ends in a format error, and so does reading one in which a
\* chunk id occurs twice, with the id in the message; a module that is
\* returned holds the chunks other than Atom, ImpT, ExpT and Abst in file order.
C23_HeaderAndDuplicates ==
    (Ended /\ WholeFile(beam.input)) =>
        LET chunks == ChunksAt(beam.input, 12)
            twice == {j \in 1..Len(chunks) : \E i \in 1..(j - 1) : chunks[i].id = chunks[j].id}
        IN  /\ (SubSeq(beam.input, 1, 4) # MagicFOR1 \/ SubSeq(beam.input, 9, 12) # TypeBEAM)
                  => FormatError
            /\ twice # {} => FormatError
            /\ (status = "running" /\ beam.result.kind = "ok")
                  => beam.result.module.unknown_chunks = SelectSeq(chunks, UnknownOnly)

\* C24: loading the chunks never aborts: whatever the ImpT, ExpT and Abst
\* chunks hold, the reader is still running and ends with a value.
C24_MalformedIsError == ~(status = "panicked" /\ beam.phase = "loading")

\* C30: decoding the header never aborts and no arithmetic of the decoder
\* wraps; each turn of the chunk loop adds one chunk, adds at least 8 to the
\* count, leaves the count a multiple of 4 and the reader that many bytes
\* past the header, and a turn is only taken while the count is below the
\* payload size.
C30_TurnOfLoop ==
    (beam.phase = "decoding" /\ beam'.phase = "decoding") =>
        /\ U32Lt(beam.read_size, beam.total_size)
        /\ Len(beam'.chunks) = Len(beam.chunks) + 1
        /\ ~U32Lt(beam'.read_size, U32Add(beam.read_size, U32Of(8)).v)
        /\ beam'.read_size.lo % 4 = 0
        /\ ReaderPos(beam'.reader) = 12 + AsCount(beam'.read_size)
C30_ChunkLoop ==
    /\ [](~(status = "panicked" /\ beam.phase = "start"))
    /\ [](~beam.wrapped)
    /\ [][C30_TurnOfLoop]_vars

====
